---- MODULE Spec2Model ----
(***************************************************************************)
(* Target-state synchronisation of the supervisor: the fetch/update        *)
(* protocol (update), the cache reader (get) and the poller (poll,         *)
(* startPoll) of the target-state module, as a state machine; and the      *)
(* proxyvisor: its tables of dependent apps and devices, the planner       *)
(* (getRequiredSteps), the step executors and the hook deliveries.         *)
(*                                                                         *)
(* Every await of the source is a point where another asynchronous         *)
(* function may run, so every await ends one action of the model.          *)
(***************************************************************************)
EXTENDS Integers, Sequences, FiniteSets, TLC

(***************************************************************************)
(* Bounds of the model and constants of the program.                       *)
(***************************************************************************)
\* The consecutive-failure counter is capped: no fetch of the poller fails
\* once it has reached this value.
MaxFetchErrors == 3
\* constants.maxApiJitterDelay, in milliseconds: the jitter is in [0, max).
MaxApiJitterDelay == 2
\* 15000 * 2 ** targetStateFetchErrors
BackoffBase == 15000
\* await delay(10000)
FallbackDelay == 10000
\* The planning passes and the operations of the proxyvisor one run holds.
MaxPasses == 2
MaxCalls == 2
\* The clock advances by TickMs, up to MaxNow, or to the end of a delay.
TickMs == 15000
MaxNow == 15000
\* if (diff < 30000) return Promise.delay(30001 - diff)
Window == 30000

\* The asynchronous callers of update() and get() other than the poller.
Callers == {"c1", "c2"}
Poller == "poll"
Proc == Callers \cup {Poller}

\* Values config.get('appUpdatePollInterval') may return, in milliseconds.
PollIntervals == {20000, 100000}

\* The validation tokens the remote may publish.
Etags == {"e1", "e2"}
\* What the remote publishes over time: from one to the next the body, the etag
\* or both differ.
RemoteDocs == {[body |-> "b1", etag |-> "e1"], [body |-> "b2", etag |-> "e1"],
               [body |-> "b2", etag |-> "e2"]}
\* The body of an HTTP error answer, and what a consumer's mutation leaves.
ErrBody == "error-page"
Mutated == "mutated"
\* headers.etag of an answer that carries no etag header.
NoEtag == "undefined"

\* References are positive; these two are what a variable holds instead of one.
NoRef == 0
Fail == -1
\* cache == null, and no event emitted yet.
NoCache == [etag |-> NoEtag, body |-> NoRef]
NoEvent == [body |-> NoRef, force |-> FALSE, isFromApi |-> FALSE]
NoHolder == "free"
NoHeader == "none"
NeverFetched == "never"

\* The objects of the JavaScript heap the module and its consumers may hold:
\* the cached body, the payload of the last event, one get() result per caller,
\* and the two objects one fetch allocates.
Refs == 1..(Cardinality(Callers) + 4)
Unallocated == "unallocated"

VARIABLES
    remote,                  \* the document the remote endpoint publishes
    cache,                   \* let cache: NoCache or [etag, body (a reference)]
    heap,                    \* reference -> content of the object
    lockHolder,              \* who holds writeLock('getTarget')
    lastFetch,               \* export let lastFetch: whose finalizer wrote it last
    upc,                     \* where each process's update() call stands
    sent,                    \* the If-None-Match header of that call's request
    uargs,                   \* the (force, isFromApi) arguments of that call
    outcome,                 \* how the body of that call ended
    emitted,                 \* events emitted by that call
    stamped,                 \* whether that call's finalizer has run
    lastEvent,               \* the last 'target-state-update' event a listener got
    gpc,                     \* where each caller's get() call stands
    gres,                    \* what that get() returned: Fail or a reference
    started,                 \* _.once: startPoll has been called
    ppc,                     \* where the poller stands
    instantUpdates,          \* what startPoll's config.get gave, in the first cycle
    skipFirstGet,            \* the argument of the running poll()
    appUpdatePollInterval,   \* the nominal interval poll() read
    pollInterval,            \* let pollInterval of the running poll()
    delayMs,                 \* the argument of the delay() poll() awaits
    targetStateFetchErrors,  \* let targetStateFetchErrors
    consecFails              \* history: consecutive failed fetches of the poller

tsVars == <<remote, cache, heap, lockHolder, lastFetch, upc, sent, uargs,
            outcome, emitted, stamped, lastEvent, gpc, gres, started, ppc,
            instantUpdates, skipFirstGet, appUpdatePollInterval, pollInterval,
            delayMs, targetStateFetchErrors, consecFails>>

updateVars == <<upc, sent, uargs, outcome, emitted, stamped>>
pollVars == <<started, ppc, instantUpdates, skipFirstGet, appUpdatePollInterval,
              pollInterval, delayMs, targetStateFetchErrors, consecFails>>
getVars == <<gpc, gres>>

VARIABLES
    dependentApp,            \* table dependentApp: appId -> row
    dependentDevice,         \* table dependentDevice: uuid -> row
    dependentAppTarget,      \* table dependentAppTarget: appId -> row
    dependentDeviceTarget,   \* table dependentDeviceTarget: uuid -> row
    availableImages,         \* the names of the images the device has
    downloading,             \* the imageIds being downloaded
    stepsInProgress,         \* the appIds of the steps being executed
    tars,                    \* the files of /data/dependent-assets: <<appId, commit>>
    acknowledgedState,       \* this.acknowledgedState: uuid -> target state
    lastRequestForDevice,    \* this.lastRequestForDevice: uuid -> time
    steps,                   \* what the last getRequiredSteps returned
    stepsForApp,             \* const stepsForApp of its loop, by appId
    passes,                  \* history: the number of planning passes
    planned,                 \* history: what the last pass was called with
    exec,                    \* where each running operation stands
    calls,                   \* the number of operations started
    now,                     \* Date.now()
    hist                     \* history: the requests sent to each uuid

dbVars == <<dependentApp, dependentDevice, dependentAppTarget,
            dependentDeviceTarget>>
planInputs == <<availableImages, downloading, stepsInProgress>>
planVars == <<steps, stepsForApp>>
passVars == <<passes, planned>>
execVars == <<exec, calls, now, hist>>
pvVars == <<dbVars, planInputs, tars, acknowledgedState, lastRequestForDevice,
            planVars, passVars, execVars>>

vars == <<tsVars, pvVars>>

Min(a, b) == IF a <= b THEN a ELSE b

(***************************************************************************)
(* The heap: references, allocation and _.cloneDeep.                       *)
(***************************************************************************)
\* The references something still holds.
Live(c, ev, gr) ==
    (IF c = NoCache THEN {} ELSE {c.body})
    \cup (IF ev = NoEvent THEN {} ELSE {ev.body})
    \cup {gr[p] : p \in {q \in Callers : gr[q] \in Refs}}

\* A new object gets a reference nothing holds.
NewRef(used) == CHOOSE r \in Refs \ used : \A s \in Refs \ used : r <= s

\* Objects nothing holds any more are collected.
Collect(h, live) == [r \in Refs |-> IF r \in live THEN h[r] ELSE Unallocated]

\* A copy that is the object itself.
cloneShallow(ref, used) == ref

\* _.cloneDeep(x): the reference of a new object; CopyInto gives it x's content.
cloneDeep(ref, used) == NewRef(used)

CopyInto(h, from, to) == [h EXCEPT ![to] = h[from]]

(***************************************************************************)
(* update(force, isFromApi)                                                *)
(***************************************************************************)
Idle(p) == upc[p] = "none" /\ (p \in Callers => gpc[p] = "none")

\* The call itself: the arguments are bound and the lock is asked for.
BeginUpdate(p, force, isFromApi) ==
    /\ upc' = [upc EXCEPT ![p] = "lock"]
    /\ sent' = [sent EXCEPT ![p] = NoHeader]
    /\ uargs' = [uargs EXCEPT ![p] = [force |-> force, isFromApi |-> isFromApi]]
    /\ outcome' = [outcome EXCEPT ![p] = "pending"]
    /\ emitted' = [emitted EXCEPT ![p] = 0]
    /\ stamped' = [stamped EXCEPT ![p] = FALSE]

\* The (force, isFromApi) pairs each caller passes to update().
ArgsOf(p) == IF p = "c1" THEN {<<TRUE, FALSE>>} ELSE {<<FALSE, TRUE>>}

\* A caller other than the poller calls update(force, isFromApi).
CallUpdate(p) ==
    /\ p \in Callers
    /\ Idle(p)
    /\ \E args \in ArgsOf(p) : BeginUpdate(p, args[1], args[2])
    /\ UNCHANGED <<pvVars, remote, cache, heap, lockHolder, lastFetch, lastEvent,
                   getVars, pollVars>>

\* writeLock('getTarget'): granted to one holder at a time.
writeLock(holder) == holder = NoHolder

\* const lockGetTarget = () => writeLock('getTarget').disposer(...)
lockGetTarget == writeLock(lockHolder)

\* update() whose body starts without waiting for the lock.
UpdateAcquireUnlocked(p) ==
    /\ upc[p] = "lock"
    /\ lockHolder' = p
    /\ upc' = [upc EXCEPT ![p] = "config"]
    /\ UNCHANGED <<pvVars, remote, cache, heap, lastFetch, sent, uargs, outcome, emitted,
                   stamped, lastEvent, getVars, pollVars>>

\* Bluebird.using(lockGetTarget(), ...): the body starts once the lock is granted.
UpdateAcquire(p) ==
    /\ upc[p] = "lock"
    /\ lockGetTarget
    /\ lockHolder' = p
    /\ upc' = [upc EXCEPT ![p] = "config"]
    /\ UNCHANGED <<pvVars, remote, cache, heap, lastFetch, sent, uargs, outcome, emitted,
                   stamped, lastEvent, getVars, pollVars>>

\* A fetch of the poller may fail only while the failure counter is under its cap.
MayFail(p) == p = Poller => targetStateFetchErrors < MaxFetchErrors

\* The body of update() ends with `how`; the disposer runs next.
EndBody(p, how) ==
    /\ upc' = [upc EXCEPT ![p] = "release"]
    /\ outcome' = [outcome EXCEPT ![p] = how]

\* await config.getMany([...]) fails, or apiEndpoint is not a string.
UpdateConfigFails(p) ==
    /\ upc[p] = "config"
    /\ MayFail(p)
    /\ \E how \in {"config-error", "endpoint-not-string"} : EndBody(p, how)
    /\ UNCHANGED <<pvVars, remote, cache, heap, lockHolder, lastFetch, sent, uargs, emitted,
                   stamped, lastEvent, getVars, pollVars>>

\* const params = {json: true}; with a string cache.etag, params.headers gets
\* 'If-None-Match': cache.etag.
Params(c) ==
    IF c # NoCache /\ c.etag \in Etags THEN c.etag ELSE NoHeader

\* request.getAsync(endpoint, {json: true}): the options passed are a new
\* object literal, not params, so no If-None-Match header is sent.
SentIfNoneMatch(params) == NoHeader

\* The configuration is read and the request is issued.
UpdateRequest(p) ==
    /\ upc[p] = "config"
    /\ upc' = [upc EXCEPT ![p] = "request"]
    /\ sent' = [sent EXCEPT ![p] = SentIfNoneMatch(Params(cache))]
    /\ UNCHANGED <<pvVars, remote, cache, heap, lockHolder, lastFetch, uargs, outcome,
                   emitted, stamped, lastEvent, getVars, pollVars>>

\* .timeout(apiTimeout) fires, or the transport fails.
UpdateRequestFails(p) ==
    /\ upc[p] = "request"
    /\ MayFail(p)
    /\ \E how \in {"timeout", "transport-error"} : EndBody(p, how)
    /\ UNCHANGED <<pvVars, remote, cache, heap, lockHolder, lastFetch, sent, uargs, emitted,
                   stamped, lastEvent, getVars, pollVars>>

\* What the remote answers: [statusCode, etag (headers.etag), body].
Answer(status) ==
    IF status = 200
    THEN [statusCode |-> 200, etag |-> remote.etag, body |-> remote.body]
    ELSE [statusCode |-> status, etag |-> NoEtag, body |-> ErrBody]

Statuses == {200, 304, 500}

\* The answer the endpoint's contract gives to a request with this precondition:
\* 304 when the token is the current one, else 200 with the document.
ContractStatus(ifNoneMatch) == IF ifNoneMatch = remote.etag THEN 304 ELSE 200

\* A cache write that replaces the body and keeps the old token.
NewCacheKeepsEtag(ans, body) == [etag |-> cache.etag, body |-> body]

\* cache = {etag: headers.etag, body}
NewCache(ans, body) == [etag |-> ans.etag, body |-> body]

\* An emit that passes the two flags in the wrong order.
EventSwapped(p, copy) ==
    [body |-> copy, force |-> uargs[p].isFromApi, isFromApi |-> uargs[p].force]

\* The arguments of emitter.emit('target-state-update', copy, force, isFromApi).
EventFor(p, copy) ==
    [body |-> copy, force |-> uargs[p].force, isFromApi |-> uargs[p].isFromApi]

\* if (statusCode === 304) return; cache = {etag: headers.etag, body};
\* emitter.emit('target-state-update', _.cloneDeep(body), force, isFromApi)
HandleAnswer(p, ans) ==
    IF ans.statusCode = 304
    THEN /\ EndBody(p, "304")
         /\ UNCHANGED <<cache, heap, emitted, lastEvent>>
    ELSE LET used == Live(cache, lastEvent, gres)
             body == NewRef(used)
             copy == cloneDeep(body, used \cup {body})
             c == NewCache(ans, body)
             ev == EventFor(p, copy)
             h == CopyInto([heap EXCEPT ![body] = ans.body], body, copy)
         IN /\ EndBody(p, IF ans.statusCode = 200 THEN "200" ELSE "http-error")
            /\ cache' = c
            /\ lastEvent' = ev
            /\ emitted' = [emitted EXCEPT ![p] = @ + 1]
            /\ heap' = Collect(h, Live(c, ev, gres))

\* The answer arrives.
UpdateResponse(p) ==
    /\ upc[p] = "request"
    /\ \E status \in Statuses : HandleAnswer(p, Answer(status))
    /\ UNCHANGED <<pvVars, remote, lockHolder, lastFetch, sent, uargs, stamped, getVars,
                   pollVars>>

\* A release written after the body, not in a disposer: a body that throws
\* skips it.
UpdateReleaseOnSuccess(p) ==
    /\ upc[p] = "release"
    /\ lockHolder' = IF outcome[p] \in {"200", "304", "http-error"} THEN NoHolder
                                                                      ELSE lockHolder
    /\ upc' = [upc EXCEPT ![p] = "finally"]
    /\ UNCHANGED <<pvVars, remote, cache, heap, lastFetch, sent, uargs, outcome, emitted,
                   stamped, lastEvent, getVars, pollVars>>

\* The disposer: release().
UpdateRelease(p) ==
    /\ upc[p] = "release"
    /\ lockHolder' = NoHolder
    /\ upc' = [upc EXCEPT ![p] = "finally"]
    /\ UNCHANGED <<pvVars, remote, cache, heap, lastFetch, sent, uargs, outcome, emitted,
                   stamped, lastEvent, getVars, pollVars>>

\* How update() settled for its caller.
Rejected(how) == how \in {"config-error", "endpoint-not-string", "timeout",
                          "transport-error"}

\* A .then() in place of .finally(): the timestamp only of a call that succeeded.
FinalizerOnSuccess(how) == ~Rejected(how)

\* Whether the finalizer runs for a call that ended with `how`: .finally() always.
FinalizerRuns(how) == TRUE

\* .finally(() => { lastFetch = process.hrtime() }), then the promise settles.
UpdateFinally(p) ==
    /\ upc[p] = "finally"
    /\ IF FinalizerRuns(outcome[p])
       THEN lastFetch' = p /\ stamped' = [stamped EXCEPT ![p] = TRUE]
       ELSE UNCHANGED <<lastFetch, stamped>>
    /\ upc' = [upc EXCEPT ![p] = "settled"]
    /\ UNCHANGED <<pvVars, remote, cache, heap, lockHolder, sent, uargs, outcome, emitted,
                   lastEvent, getVars, pollVars>>

\* The call is over for its caller: nothing of it is kept.
EndUpdate(p) ==
    /\ upc' = [upc EXCEPT ![p] = "none"]
    /\ sent' = [sent EXCEPT ![p] = NoHeader]
    /\ uargs' = [uargs EXCEPT ![p] = [force |-> FALSE, isFromApi |-> FALSE]]
    /\ outcome' = [outcome EXCEPT ![p] = "pending"]
    /\ emitted' = [emitted EXCEPT ![p] = 0]
    /\ stamped' = [stamped EXCEPT ![p] = FALSE]

\* The caller of a direct update() gets the result.
UpdateReturn(p) ==
    /\ p \in Callers
    /\ upc[p] = "settled"
    /\ gpc[p] = "none"
    /\ EndUpdate(p)
    /\ UNCHANGED <<pvVars, remote, cache, heap, lockHolder, lastFetch, lastEvent,
                   getVars, pollVars>>

(***************************************************************************)
(* get()                                                                   *)
(***************************************************************************)
\* A get() that fetches whatever the cache holds.
CacheAlwaysEmpty(c) == TRUE

\* if (cache == null)
CacheEmpty(c) == c = NoCache

\* return _.cloneDeep(cache.body): reading body of a missing cache throws.
ReturnBody(p) ==
    IF CacheEmpty(cache)
    THEN gres' = [gres EXCEPT ![p] = Fail] /\ UNCHANGED heap
    ELSE LET used == Live(cache, lastEvent, gres)
             copy == cloneDeep(cache.body, used)
             gr == [gres EXCEPT ![p] = copy]
         IN /\ gres' = gr
            /\ heap' = Collect(CopyInto(heap, cache.body, copy),
                               Live(cache, lastEvent, gr))

\* A caller calls get(): with an empty cache it awaits update() first.
CallGet(p) ==
    /\ p \in Callers
    /\ Idle(p)
    /\ IF CacheEmpty(cache)
       THEN /\ BeginUpdate(p, FALSE, FALSE)
            /\ gpc' = [gpc EXCEPT ![p] = "update"]
            /\ UNCHANGED <<gres, heap>>
       ELSE /\ ReturnBody(p)
            /\ gpc' = [gpc EXCEPT ![p] = "returned"]
            /\ UNCHANGED updateVars
    /\ UNCHANGED <<pvVars, remote, cache, lockHolder, lastFetch, lastEvent, pollVars>>

\* The update() get() awaited has settled: its error is get()'s error.
GetResume(p) ==
    /\ p \in Callers
    /\ gpc[p] = "update"
    /\ upc[p] = "settled"
    /\ EndUpdate(p)
    /\ gpc' = [gpc EXCEPT ![p] = "returned"]
    /\ IF Rejected(outcome[p])
       THEN gres' = [gres EXCEPT ![p] = Fail] /\ UNCHANGED heap
       ELSE ReturnBody(p)
    /\ UNCHANGED <<pvVars, remote, cache, lockHolder, lastFetch, lastEvent, pollVars>>

\* The caller is done with what get() gave it.
GetDone(p) ==
    /\ p \in Callers
    /\ gpc[p] = "returned"
    /\ gpc' = [gpc EXCEPT ![p] = "none"]
    /\ LET gr == [gres EXCEPT ![p] = NoRef]
       IN gres' = gr /\ heap' = Collect(heap, Live(cache, lastEvent, gr))
    /\ UNCHANGED <<pvVars, remote, cache, lockHolder, lastFetch, updateVars, lastEvent,
                   pollVars>>

(***************************************************************************)
(* The consumers and the remote.                                           *)
(***************************************************************************)
\* The objects handed out: the results of get() and the payload of the event.
HandedOut ==
    {gres[p] : p \in {q \in Callers : gres[q] \in Refs}}
    \cup (IF lastEvent = NoEvent THEN {} ELSE {lastEvent.body})

\* A caller of get() or a listener of the event changes the object it was given.
Mutate(ref) ==
    /\ ref \in HandedOut
    /\ heap[ref] # Mutated
    /\ heap' = [heap EXCEPT ![ref] = Mutated]
    /\ UNCHANGED <<pvVars, remote, cache, lockHolder, lastFetch, updateVars, lastEvent,
                   getVars, pollVars>>

\* The remote publishes another document: the body, the etag or both change.
RemoteChange ==
    /\ \E doc \in RemoteDocs : doc # remote /\ remote' = doc
    /\ UNCHANGED <<pvVars, cache, heap, lockHolder, lastFetch, updateVars, lastEvent,
                   getVars, pollVars>>

(***************************************************************************)
(* startPoll() and poll(skipFirstGet)                                      *)
(***************************************************************************)
\* _.once(async () => ...): only the first call runs the function.
StartPoll ==
    /\ started' = TRUE
    /\ ppc' = IF started THEN ppc ELSE "startPoll"
    /\ UNCHANGED <<pvVars, remote, cache, heap, lockHolder, lastFetch, updateVars,
                   lastEvent, getVars, instantUpdates, skipFirstGet,
                   appUpdatePollInterval, pollInterval, delayMs,
                   targetStateFetchErrors, consecFails>>

\* How await config.get('instantUpdates') may end, and the local's value before.
InstantUpdatesReads == {"true", "false", "throws"}
Unread == "unread"

\* A first cycle that is skipped only when the setting was read as false.
SkipOnlyWhenFalse(read) == read = "false"

\* catch { instantUpdates = false }; poll(!instantUpdates)
SkipFirst(read) == read # "true"

\* instantUpdates = await config.get('instantUpdates'), false when that fails;
\* then poll(!instantUpdates).
StartPollConfig ==
    /\ ppc = "startPoll"
    /\ \E read \in InstantUpdatesReads :
          /\ instantUpdates' = read
          /\ skipFirstGet' = SkipFirst(read)
    /\ ppc' = "poll"
    /\ UNCHANGED <<pvVars, remote, cache, heap, lockHolder, lastFetch, updateVars,
                   lastEvent, getVars, started, appUpdatePollInterval,
                   pollInterval, delayMs, targetStateFetchErrors, consecFails>>

\* Math.random() * constants.maxApiJitterDelay + appUpdatePollInterval
Jittered(interval, jitter) == jitter + interval

\* await config.get('appUpdatePollInterval') returns; pollInterval is computed
\* and, unless skipFirstGet, update() is called.
PollConfig ==
    /\ ppc = "poll"
    /\ \E interval \in PollIntervals, jitter \in 0..(MaxApiJitterDelay - 1) :
          /\ appUpdatePollInterval' = interval
          /\ pollInterval' = Jittered(interval, jitter)
    /\ IF skipFirstGet
       THEN ppc' = "delay" /\ delayMs' = pollInterval' /\ UNCHANGED updateVars
       ELSE ppc' = "update" /\ UNCHANGED delayMs /\ BeginUpdate(Poller, FALSE, FALSE)
    /\ UNCHANGED <<pvVars, remote, cache, heap, lockHolder, lastFetch, lastEvent,
                   getVars, started, instantUpdates, skipFirstGet,
                   targetStateFetchErrors, consecFails>>

\* A failed configuration read handled as a failed fetch: counted, and followed
\* by the first backoff.
PollConfigFailsCounted ==
    /\ ppc = "poll"
    /\ targetStateFetchErrors < MaxFetchErrors
    /\ ppc' = "fallback"
    /\ delayMs' = BackoffBase
    /\ targetStateFetchErrors' = targetStateFetchErrors + 1
    /\ UNCHANGED <<pvVars, remote, cache, heap, lockHolder, lastFetch, updateVars,
                   lastEvent, getVars, started, instantUpdates, skipFirstGet,
                   appUpdatePollInterval, pollInterval, consecFails>>

\* await config.get('appUpdatePollInterval') fails: the outer catch.
PollConfigFails ==
    /\ ppc = "poll"
    /\ ppc' = "fallback"
    /\ delayMs' = FallbackDelay
    /\ UNCHANGED <<pvVars, remote, cache, heap, lockHolder, lastFetch, updateVars,
                   lastEvent, getVars, started, instantUpdates, skipFirstGet,
                   appUpdatePollInterval, pollInterval, targetStateFetchErrors,
                   consecFails>>

\* A backoff computed from the counter after its increment.
BackoffPreIncrement(interval, errors) == Min(interval, BackoffBase * 2 ^ (errors + 1))

\* Math.min(appUpdatePollInterval, 15000 * 2 ** targetStateFetchErrors)
Backoff(interval, errors) == Min(interval, BackoffBase * 2 ^ errors)

\* targetStateFetchErrors = 0 after a fetch that succeeded.
ErrorsAfterSuccess(errors) == 0

\* await update() settled: the counter is reset, or the backoff is computed and
\* the counter incremented.
PollUpdateSettled ==
    /\ ppc = "update"
    /\ upc[Poller] = "settled"
    /\ EndUpdate(Poller)
    /\ ppc' = "delay"
    /\ IF Rejected(outcome[Poller])
       THEN /\ pollInterval' = Backoff(appUpdatePollInterval, targetStateFetchErrors)
            /\ targetStateFetchErrors' = targetStateFetchErrors + 1
            /\ consecFails' = consecFails + 1
       ELSE /\ targetStateFetchErrors' = ErrorsAfterSuccess(targetStateFetchErrors)
            /\ consecFails' = 0
            /\ UNCHANGED pollInterval
    /\ delayMs' = pollInterval'
    /\ UNCHANGED <<pvVars, remote, cache, heap, lockHolder, lastFetch, lastEvent,
                   getVars, started, instantUpdates, skipFirstGet,
                   appUpdatePollInterval>>

\* A poll() that calls itself after the delay of the try block only, not in a
\* finally: after the fallback sleep of the catch nothing follows.
PollWakeInTry ==
    /\ ppc = "delay"
    /\ ppc' = "poll"
    /\ instantUpdates' = Unread
    /\ skipFirstGet' = FALSE
    /\ appUpdatePollInterval' = 0
    /\ pollInterval' = 0
    /\ delayMs' = 0
    /\ UNCHANGED <<pvVars, remote, cache, heap, lockHolder, lastFetch, updateVars,
                   lastEvent, getVars, started, targetStateFetchErrors,
                   consecFails>>

\* await delay(...) is over; finally: await poll(), whose locals are new.
PollWake ==
    /\ ppc \in {"delay", "fallback"}
    /\ ppc' = "poll"
    /\ instantUpdates' = Unread
    /\ skipFirstGet' = FALSE
    /\ appUpdatePollInterval' = 0
    /\ pollInterval' = 0
    /\ delayMs' = 0
    /\ UNCHANGED <<pvVars, remote, cache, heap, lockHolder, lastFetch, updateVars,
                   lastEvent, getVars, started, targetStateFetchErrors,
                   consecFails>>

(***************************************************************************)
(* The proxyvisor: values, table rows and their normalisation.             *)
(***************************************************************************)
\* null and undefined of JavaScript.
Null == "null"
Undefined == "undefined"

AppIds == {1, 2}
Uuids == {"u1", "u2"}
\* A select returns the rows in the order of their keys.
AppIdOrder == <<1, 2>>
UuidOrder == <<"u1", "u2">>

RowsOf(table, order) ==
    LET present == SelectSeq(order, LAMBDA k : k \in DOMAIN table)
    IN  [i \in 1..Len(present) |-> table[present[i]]]

\* v ?? d
Coalesce(v, d) == IF v \in {Null, Undefined} THEN d ELSE v

\* A column that holds no text, JSON.stringify(v) and JSON.parse(text):
\* JSON.parse(null) is null.
SqlNull == [json |-> Undefined]
stringify(v) == [json |-> v]
parse(text) == IF text = SqlNull THEN Null ELSE text.json

\* this.images.normalise(image): the name with its tag.
normalise(image) ==
    CASE image = "imgA" -> "imgA:latest"
      [] image = "imgB" -> "imgB:latest"
      [] OTHER -> image

normaliseDependentAppForDB(app) ==
    [appId |-> app.appId, name |-> app.name, commit |-> app.commit,
     releaseId |-> app.releaseId, imageId |-> app.imageId,
     parentApp |-> app.parentApp,
     image |-> IF app.image \notin {Null, Undefined}
               THEN normalise(app.image) ELSE Null,
     config |-> stringify(Coalesce(app.config, "{}")),
     environment |-> stringify(Coalesce(app.environment, "{}"))]

normaliseDependentAppFromDB(app) ==
    [appId |-> app.appId, name |-> app.name, commit |-> app.commit,
     releaseId |-> app.releaseId, image |-> app.image,
     imageId |-> app.imageId, config |-> parse(app.config),
     environment |-> parse(app.environment), parentApp |-> app.parentApp]

\* JSON.parse(device.apps), a commit that is missing becoming null.
normaliseDependentDeviceTargetFromDB(device) ==
    [uuid |-> device.uuid, name |-> device.name,
     apps |-> [a \in DOMAIN device.apps.json |->
                  [device.apps.json[a] EXCEPT
                      !.commit = IF @ = Undefined THEN Null ELSE @]]]

\* getCurrentStates(): the apps by appId, and per device row an object whose
\* apps has the one entry of the row's appId.
getCurrentStates(apps, devicesFromDB) ==
    [apps |-> [a \in DOMAIN apps |-> normaliseDependentAppFromDB(apps[a])],
     devices |->
        LET rows == RowsOf(devicesFromDB, UuidOrder)
        IN  [i \in DOMAIN rows |->
               [uuid |-> rows[i].uuid, name |-> rows[i].name,
                lock_expiry_date |-> rows[i].lock_expiry_date,
                markedForDeletion |-> rows[i].markedForDeletion,
                apps |-> [a \in {rows[i].appId} |->
                   [commit |-> rows[i].commit,
                    config |-> parse(rows[i].config),
                    environment |-> parse(rows[i].environment),
                    targetCommit |-> rows[i].targetCommit,
                    targetEnvironment |-> parse(rows[i].targetEnvironment),
                    targetConfig |-> parse(rows[i].targetConfig)]]]]]

\* getTarget()
getTarget(apps, devices) ==
    [apps |-> [a \in DOMAIN apps |-> normaliseDependentAppFromDB(apps[a])],
     devices |->
        LET rows == RowsOf(devices, UuidOrder)
        IN  [i \in DOMAIN rows |-> normaliseDependentDeviceTargetFromDB(rows[i])]]

(***************************************************************************)
(* The planner: getRequiredSteps and what it calls.                        *)
(***************************************************************************)
Range(seq) == {seq[i] : i \in DOMAIN seq}

\* An argument that may be undefined is the empty set or the set of its value.
The(opt) == CHOOSE v \in opt : TRUE

\* A device that is taken to have every image.
everyImageAvailable(image, available) == TRUE

\* _.some(available, { name: image })
_imageAvailable(image, available) == \E img \in available : img.name = image

\* this.acknowledgedState[uuid] before any answer, and after a refusal.
AckUndefined ==
    [appId |-> 0, commit |-> Undefined, config |-> Undefined,
     environment |-> Undefined]
AckNull == [appId |-> 0, commit |-> Null, config |-> Null, environment |-> Null]
\* this.lastRequestForDevice[uuid] before any request.
NeverRequested == -1

\* The operations that may run at once, and one that is not running.
Execs == {"e1", "e2"}
IdleExec == [pc |-> "idle"]
\* Before the first planning pass, and a uuid no request was sent to: when
\* the last request started, the target of an update hook answered with 200
\* since, and whether no other request was in flight then.
NotPlanned == [args |-> <<>>, acknowledged |-> <<>>, lastRequest |-> <<>>]
NoRequests == [last |-> NeverRequested, ok |-> AckUndefined, alone |-> FALSE]

targetState(device, appId) ==
    [appId |-> appId, commit |-> device.apps[appId].targetCommit,
     config |-> device.apps[appId].targetConfig,
     environment |-> device.apps[appId].targetEnvironment]

currentState(device, appId) ==
    [appId |-> appId, commit |-> device.apps[appId].commit,
     config |-> device.apps[appId].config,
     environment |-> device.apps[appId].environment]

\* A hook step that lists a device whatever was acknowledged.
NeedsHookUnacknowledged(device, appId) ==
    /\ device.apps[appId].targetCommit \notin {Null, Undefined}
    /\ targetState(device, appId) # currentState(device, appId)

\* A hook step that lists a device no hook step has sent a request to.
NeedsHookOnce(device, appId) ==
    /\ NeedsHookUnacknowledged(device, appId)
    /\ targetState(device, appId) # acknowledgedState[device.uuid]
    /\ lastRequestForDevice[device.uuid] = NeverRequested

\* A hook step that lists a device whose target is not its current state or
\* is not what it acknowledged.
NeedsHookEither(device, appId) ==
    /\ device.apps[appId].targetCommit \notin {Null, Undefined}
    /\ \/ targetState(device, appId) # currentState(device, appId)
       \/ targetState(device, appId) # acknowledgedState[device.uuid]

\* Whether _getHookStep lists a device that is not marked for deletion.
NeedsHook(device, appId) ==
    /\ device.apps[appId].targetCommit \notin {Null, Undefined}
    /\ targetState(device, appId) # currentState(device, appId)
    /\ targetState(device, appId) # acknowledgedState[device.uuid]

_getHookStep(currentDevices, appId) ==
    LET listed == SelectSeq(currentDevices, LAMBDA device :
                     device.markedForDeletion
                     \/ NeedsHook(device, appId))
    IN  [action |-> "sendDependentHooks",
         devices |-> [i \in DOMAIN listed |->
            IF listed[i].markedForDeletion
            THEN [uuid |-> listed[i].uuid, markedForDeletion |-> TRUE]
            ELSE [uuid |-> listed[i].uuid,
                  target |-> targetState(listed[i], appId)]],
         appId |-> appId]

\* The target a device row holds, in the shape of a target device.
currentDeviceTarget(dev, appId) ==
    [uuid |-> dev.uuid, name |-> dev.name,
     apps |-> [a \in {appId} |->
        [commit |-> dev.apps[appId].targetCommit,
         environment |-> Coalesce(dev.apps[appId].targetEnvironment, "{}"),
         config |-> Coalesce(dev.apps[appId].targetConfig, "{}")]]]

\* A comparison that keeps the devices marked for deletion.
_compareDevicesMarked(currentDevices, targetDevices, appId) ==
    {currentDeviceTarget(currentDevices[i], appId) : i \in DOMAIN currentDevices}
        # Range(targetDevices)

\* !_.isEmpty(_.xorWith(currentDeviceTargets, targetDevices, _.isEqual))
_compareDevices(currentDevices, targetDevices, appId) ==
    LET kept == SelectSeq(currentDevices, LAMBDA dev : ~dev.markedForDeletion)
        currentDeviceTargets ==
            {currentDeviceTarget(kept[i], appId) : i \in DOMAIN kept}
    IN  currentDeviceTargets # Range(targetDevices)

imageForDependentApp(app) ==
    [name |-> app.image, imageId |-> app.imageId, appId |-> app.appId,
     dependent |-> TRUE]

\* A test that looks for a step in progress on the app itself.
someTargetsApp(inProgress, target) ==
    \E step \in inProgress : step.appId = target.appId

\* _.some(stepsInProgress, (step) => step.appId === target.parentApp)
someTargetsParent(inProgress, target) ==
    \E step \in inProgress : step.appId = target.parentApp

nextStepsForDependentApp(appId, available, downloadingIds, current, target, currentDevices, targetDevices, inProgress) ==
    IF target = {}
    THEN <<[action |-> "removeDependentApp", appId |-> The(current).appId]>>
    ELSE IF someTargetsParent(inProgress, The(target))
    THEN <<[action |-> "noop"]>>
    ELSE IF /\ The(target).commit \notin {Null, Undefined}
            /\ The(target).image \notin {Null, Undefined}
            /\ ~_imageAvailable(The(target).image, available)
    THEN IF The(target).imageId \in downloadingIds
         THEN <<[action |-> "noop"]>>
         ELSE <<[action |-> "fetch", appId |-> appId,
                 image |-> imageForDependentApp(The(target))]>>
    ELSE IF current # target
            \/ _compareDevices(currentDevices, targetDevices, appId)
    THEN <<[action |-> "updateDependentTargets", devices |-> targetDevices,
            app |-> The(target), appId |-> appId]>>
    ELSE LET hookStep == _getHookStep(currentDevices, appId)
         IN  IF hookStep.devices # <<>> THEN <<hookStep>> ELSE <<>>

\* _.keys of an object keyed by appId, and _.union of two such lists.
Keys(apps) == SelectSeq(AppIdOrder, LAMBDA a : a \in DOMAIN apps)
\* A loop that visits the apps of the target only.
targetAppIdsOnly(current, target) == Keys(target.apps)

allAppIds(current, target) ==
    Keys(target.apps)
    \o SelectSeq(Keys(current.apps), LAMBDA a : a \notin DOMAIN target.apps)

devicesForApp(devices, appId) ==
    SelectSeq(devices, LAMBDA d : appId \in DOMAIN d.apps)

\* The body of the loop of getRequiredSteps, for every appId it visits.
StepsByApp(available, downloadingIds, current, target, inProgress) ==
    [appId \in Range(allAppIds(current, target)) |->
        nextStepsForDependentApp(appId, available, downloadingIds,
            IF appId \in DOMAIN current.apps THEN {current.apps[appId]} ELSE {},
            IF appId \in DOMAIN target.apps THEN {target.apps[appId]} ELSE {},
            devicesForApp(current.devices, appId),
            devicesForApp(target.devices, appId), inProgress)]

RECURSIVE concat(_, _)
concat(order, byApp) ==
    IF order = <<>> THEN <<>>
    ELSE byApp[Head(order)] \o concat(Tail(order), byApp)

getRequiredSteps(available, downloadingIds, current, target, inProgress) ==
    concat(allAppIds(current, target),
           StepsByApp(available, downloadingIds, current, target, inProgress))

\* One planning pass: the current state and the target are read from the
\* tables and getRequiredSteps is called.
Plan ==
    LET current == getCurrentStates(dependentApp, dependentDevice)
        target == getTarget(dependentAppTarget, dependentDeviceTarget)
    IN  /\ steps' = getRequiredSteps(availableImages, downloading, current,
                                     target, stepsInProgress)
        /\ stepsForApp' = StepsByApp(availableImages, downloading, current,
                                     target, stepsInProgress)
        /\ planned' = [args |-> <<availableImages, downloading, current,
                                  target, stepsInProgress>>,
                        acknowledged |-> acknowledgedState,
                        lastRequest |-> lastRequestForDevice]
        /\ UNCHANGED <<tsVars, dbVars, planInputs, tars, acknowledgedState,
                       lastRequestForDevice, execVars>>

(***************************************************************************)
(* executeStepAction, sendDependentHooks and the hook requests.            *)
(***************************************************************************)
\* this.validActions = _.keys(this.actionExecutors)
validActions == {"updateDependentTargets", "sendDependentHooks",
                 "removeDependentApp"}

\* An operation that starts runs as the first of Execs that is not running.
Free(e) ==
    /\ exec[e].pc = "idle"
    /\ \A f \in Execs : exec[f].pc = "idle" => f = e \/ e = "e1"

\* this.actionExecutors[name]: the executors are the own properties of an
\* object literal, which also has the properties of Object.prototype: some are
\* functions that return a value whatever they are called with, and __proto__
\* is an object. Every other name reads as undefined.
InheritedFunctions == {"toString", "constructor"}
InheritedObjects == {"__proto__"}
actionExecutors(action) ==
    CASE action \in validActions -> "executor"
      [] action \in InheritedFunctions -> "function"
      [] action \in InheritedObjects -> "object"
      [] OTHER -> "undefined"

\* executeStepAction(step): a name that reads as null or undefined is refused,
\* any other value is called with the step inside Promise.try.
executeStepAction(e, step) ==
    /\ Free(e) /\ calls < MaxCalls
    /\ exec' = [exec EXCEPT ![e] =
          CASE actionExecutors(step.action) = "undefined" ->
                  [pc |-> "rejected", error |-> "Invalid proxyvisor action",
                   action |-> step.action]
            [] actionExecutors(step.action) = "executor" ->
                  [pc |-> step.action, step |-> step]
            [] actionExecutors(step.action) = "function" ->
                  [pc |-> "resolved", step |-> step]
            [] actionExecutors(step.action) = "object" ->
                  [pc |-> "rejected", error |-> "TypeError",
                   action |-> step.action]]
    /\ calls' = calls + 1
    /\ UNCHANGED <<tsVars, dbVars, planInputs, tars, acknowledgedState,
                   lastRequestForDevice, planVars, passVars, now, hist>>

\* A step of the last planning pass is executed.
ExecutePlanned(e) == \E i \in DOMAIN steps : executeStepAction(e, steps[i])

\* The promise of an operation is settled and its caller has seen it.
Return(e) ==
    /\ exec[e].pc \in {"resolved", "rejected"}
    /\ exec' = [exec EXCEPT ![e] = IdleExec]
    /\ UNCHANGED <<tsVars, dbVars, planInputs, tars, acknowledgedState,
                   lastRequestForDevice, planVars, passVars, calls, now, hist>>

\* lastRequestForDevice[uuid] != null && Date.now() - last < 30000
InWindow(last, time) == last # NeverRequested /\ time - last < Window

\* A step that gives up at the first device it finds inside its window.
EnterDeviceOrDrop(step, i) ==
    IF i > Len(step.devices)
       \/ InWindow(lastRequestForDevice[step.devices[i].uuid], now)
    THEN [pc |-> "resolved"]
    ELSE [pc |-> "send", step |-> step, i |-> i]

\* Promise.mapSeries reaches device i of the step: Promise.try checks the
\* window of its uuid and either delays or goes on to the request.
EnterDevice(step, i) ==
    IF i > Len(step.devices) THEN [pc |-> "resolved"]
    ELSE LET last == lastRequestForDevice[step.devices[i].uuid]
         IN  IF InWindow(last, now)
             THEN [pc |-> "delay", step |-> step, i |-> i,
                   wakeAt |-> now + (Window + 1 - (now - last))]
             ELSE [pc |-> "send", step |-> step, i |-> i]

\* config.get('apiTimeout') and getHookEndpoint(step.appId) resolved: the
\* first device is reached.
HooksResolve(e) ==
    /\ exec[e].pc = "sendDependentHooks"
    /\ exec[e].step.appId \in DOMAIN dependentApp
    /\ exec' = [exec EXCEPT ![e] = EnterDevice(exec[e].step, 1)]
    /\ UNCHANGED <<tsVars, dbVars, planInputs, tars, acknowledgedState,
                   lastRequestForDevice, planVars, passVars, calls, now, hist>>

\* One of them failed (the app has no row, the configuration or the parent
\* app cannot be read): the step fails before any device.
HooksResolveFails(e) ==
    /\ exec[e].pc = "sendDependentHooks"
    /\ exec' = [exec EXCEPT ![e] = [pc |-> "rejected", error |-> "endpoint",
                                    action |-> "sendDependentHooks"]]
    /\ UNCHANGED <<tsVars, dbVars, planInputs, tars, acknowledgedState,
                   lastRequestForDevice, planVars, passVars, calls, now, hist>>

\* Promise.delay(30001 - diff) is over.
HookWake(e) ==
    /\ exec[e].pc = "delay"
    /\ now >= exec[e].wakeAt
    /\ exec' = [exec EXCEPT ![e] = [pc |-> "send", step |-> exec[e].step,
                                    i |-> exec[e].i]]
    /\ UNCHANGED <<tsVars, dbVars, planInputs, tars, acknowledgedState,
                   lastRequestForDevice, planVars, passVars, calls, now, hist>>

\* A request to uuid starts now, while the others in flight go on.
Requested(u) ==
    hist' = [hist EXCEPT ![u] = [last |-> now, ok |-> AckUndefined,
                                 alone |-> FALSE]]

\* .then: lastRequestForDevice[uuid] = Date.now(), and sendDeleteHook or
\* sendUpdate puts its request on the wire.
HookSend(e) ==
    /\ exec[e].pc = "send"
    /\ LET device == exec[e].step.devices[exec[e].i]
       IN  /\ lastRequestForDevice' =
                 [lastRequestForDevice EXCEPT ![device.uuid] = now]
           /\ exec' = [exec EXCEPT ![e] =
                 [pc |-> "request", step |-> exec[e].step, i |-> exec[e].i,
                  kind |-> IF "markedForDeletion" \in DOMAIN device
                           THEN "delete" ELSE "update"]]
           /\ Requested(device.uuid)
    /\ UNCHANGED <<tsVars, dbVars, planInputs, tars, acknowledgedState, planVars,
                   passVars, calls, now>>

\* The status codes a hook receiver answers with.
HookStatuses == {200, 202, 500}

\* sendUpdate: acknowledgedState[uuid] = device.target on 200, null otherwise.
AckFor(status, target) == IF status = 200 THEN target ELSE AckNull

\* A receiver whose every answer removes the row.
DeletesRowAlways(status) == TRUE

\* sendDeleteHook: response.statusCode === 200 deletes the row of the uuid.
DeletesRow(status) == status = 200

OthersInFlight(e, u) ==
    \E f \in Execs \ {e} :
        exec[f].pc = "request" /\ exec[f].step.devices[exec[f].i].uuid = u

\* The request is answered. sendUpdate records the acknowledgement;
\* sendDeleteHook deletes the row of the device on 200. Whatever the answer,
\* the error is logged and the next device of the step is reached.
HookAnsweredWith(e, status) ==
    /\ exec[e].pc = "request"
    /\ LET device == exec[e].step.devices[exec[e].i]
           u == device.uuid
       IN  IF exec[e].kind = "update"
           THEN /\ acknowledgedState' = [acknowledgedState EXCEPT
                                            ![u] = AckFor(status, device.target)]
                /\ hist' = IF status = 200
                           THEN [hist EXCEPT ![u].ok = device.target,
                                             ![u].alone = ~OthersInFlight(e, u)]
                           ELSE hist
                /\ UNCHANGED dbVars
           ELSE /\ dependentDevice' =
                      IF DeletesRow(status)
                      THEN [v \in DOMAIN dependentDevice \ {u} |-> dependentDevice[v]]
                      ELSE dependentDevice
                /\ UNCHANGED <<dependentApp, dependentAppTarget,
                               dependentDeviceTarget, acknowledgedState, hist>>
    /\ exec' = [exec EXCEPT ![e] = EnterDevice(exec[e].step, exec[e].i + 1)]
    /\ UNCHANGED <<tsVars, planInputs, tars, lastRequestForDevice, planVars,
                   passVars, calls, now>>

HookAnswered(e) == \E status \in HookStatuses : HookAnsweredWith(e, status)

\* .timeout(timeout) fires or the request fails: the error is logged.
HookTimesOut(e) ==
    /\ exec[e].pc = "request"
    /\ exec' = [exec EXCEPT ![e] = EnterDevice(exec[e].step, exec[e].i + 1)]
    /\ UNCHANGED <<tsVars, dbVars, planInputs, tars, acknowledgedState,
                   lastRequestForDevice, planVars, passVars, calls, now, hist>>

(***************************************************************************)
(* sendUpdates({ uuid }): the hook of one device, asked for directly.      *)
(***************************************************************************)
sendUpdates(e, uuid) ==
    /\ Free(e) /\ calls < MaxCalls
    /\ exec' = [exec EXCEPT ![e] = [pc |-> "sendUpdates", uuid |-> uuid]]
    /\ calls' = calls + 1
    /\ UNCHANGED <<tsVars, dbVars, planInputs, tars, acknowledgedState,
                   lastRequestForDevice, planVars, passVars, now, hist>>

normaliseDependentDeviceFromDB(device) ==
    [device EXCEPT !.environment = parse(@), !.config = parse(@),
                   !.targetEnvironment = parse(@), !.targetConfig = parse(@)]

formatTargetAsState(device) ==
    [appId |-> device.appId, commit |-> device.targetCommit,
     environment |-> device.targetEnvironment, config |-> device.targetConfig]

formatCurrentAsState(device) ==
    [appId |-> device.appId, commit |-> device.commit,
     environment |-> device.environment, config |-> device.config]

\* The row and apiTimeout are read: without a row nothing is sent.
SendUpdatesRead(e) ==
    /\ exec[e].pc = "sendUpdates"
    /\ exec' = [exec EXCEPT ![e] =
          IF exec[e].uuid \notin DOMAIN dependentDevice
          THEN [pc |-> "resolved"]
          ELSE [pc |-> "endpoint",
                device |-> normaliseDependentDeviceFromDB(
                               dependentDevice[exec[e].uuid])]]
    /\ UNCHANGED <<tsVars, dbVars, planInputs, tars, acknowledgedState,
                   lastRequestForDevice, planVars, passVars, calls, now, hist>>

\* getHookEndpoint(device.appId) resolved: sendDeleteHook(device, ...) for a
\* device marked for deletion, sendUpdate(device, ...) for one whose target is
\* neither its current state nor acknowledged. device is the row: it has no
\* target property, and lastRequestForDevice is neither read nor written.
SendUpdatesEndpoint(e) ==
    /\ exec[e].pc = "endpoint"
    /\ exec[e].device.appId \in DOMAIN dependentApp
    /\ LET device == exec[e].device
           sends == \/ device.markedForDeletion
                    \/ /\ device.targetCommit \notin {Null, Undefined}
                       /\ formatTargetAsState(device) # formatCurrentAsState(device)
                       /\ formatTargetAsState(device) # acknowledgedState[device.uuid]
       IN  IF sends
           THEN /\ exec' = [exec EXCEPT ![e] =
                      [pc |-> "request", i |-> 1,
                       kind |-> IF device.markedForDeletion
                                THEN "delete" ELSE "update",
                       step |-> [action |-> "sendUpdates",
                                 devices |-> <<[uuid |-> device.uuid,
                                                target |-> AckUndefined]>>]]]
                /\ Requested(device.uuid)
           ELSE /\ exec' = [exec EXCEPT ![e] = [pc |-> "resolved"]]
                /\ UNCHANGED hist
    /\ UNCHANGED <<tsVars, dbVars, planInputs, tars, acknowledgedState,
                   lastRequestForDevice, planVars, passVars, calls, now>>

\* The configuration, the row or the endpoint cannot be read.
SendUpdatesFails(e) ==
    /\ exec[e].pc \in {"sendUpdates", "endpoint"}
    /\ exec' = [exec EXCEPT ![e] = [pc |-> "rejected", error |-> "read",
                                    action |-> "sendUpdates"]]
    /\ UNCHANGED <<tsVars, dbVars, planInputs, tars, acknowledgedState,
                   lastRequestForDevice, planVars, passVars, calls, now, hist>>

\* Time passes: by one tick, or to the end of a delay.
Tick ==
    /\ \E t \in (IF now + TickMs <= MaxNow THEN {now + TickMs} ELSE {}) \cup
                {exec[e].wakeAt : e \in {f \in Execs : exec[f].pc = "delay"}} :
          t > now /\ now' = t
    /\ UNCHANGED <<tsVars, dbVars, planInputs, tars, acknowledgedState,
                   lastRequestForDevice, planVars, passVars, exec, calls, hist>>

(***************************************************************************)
(* updateDependentTargets and removeDependentApp.                          *)
(***************************************************************************)
\* apiBinder.fetchDevice(uuid, ...): the device as the remote registry has it.
RegistryNames == {"dev", "renamed"}
fetchDevice(uuid) ==
    {[id |-> uuid, name |-> n, device_type |-> "generic"] : n \in RegistryNames}

\* _(device.apps).keys().head()
HeadAppId(device) == Keys(device.apps)[1]

\* An update that also takes the mark for deletion off the row.
UpdatedRowUnmarked(row, device) ==
    LET appId == Keys(device.apps)[1]
    IN  [row EXCEPT !.appId = appId,
                    !.targetEnvironment = stringify(device.apps[appId].environment),
                    !.targetConfig = stringify(device.apps[appId].config),
                    !.targetCommit = device.apps[appId].commit,
                    !.name = device.name,
                    !.markedForDeletion = FALSE]

\* .update({ appId, targetEnvironment, targetConfig, targetCommit, name })
UpdatedRow(row, device) ==
    LET appId == HeadAppId(device)
    IN  [row EXCEPT !.appId = appId,
                    !.targetEnvironment = stringify(device.apps[appId].environment),
                    !.targetConfig = stringify(device.apps[appId].config),
                    !.targetCommit = device.apps[appId].commit,
                    !.name = device.name]

\* deviceForDB, the columns it does not name being empty.
deviceForDB(device, dev) ==
    LET appId == HeadAppId(device)
    IN  [uuid |-> device.uuid, appId |-> appId, device_type |-> dev.device_type,
         deviceId |-> dev.id, name |-> dev.name,
         targetCommit |-> device.apps[appId].commit,
         targetConfig |-> stringify(device.apps[appId].config),
         targetEnvironment |-> stringify(device.apps[appId].environment),
         commit |-> Null, config |-> SqlNull, environment |-> SqlNull,
         markedForDeletion |-> FALSE, lock_expiry_date |-> Null]

Rejection(e, error) ==
    [pc |-> "rejected", error |-> error, action |-> exec[e].step.action]

\* config.getMany(['currentApiKey', 'apiTimeout']) resolved: Promise.map
\* starts on the devices of the step. The call has changed no row so far
\* (wrote).
UpdateConfig(e) ==
    /\ exec[e].pc = "updateDependentTargets"
    /\ exec' = [exec EXCEPT ![e] =
          [pc |-> "devices", step |-> exec[e].step,
           todo |-> DOMAIN exec[e].step.devices, fetching |-> {},
           wrote |-> FALSE]]
    /\ UNCHANGED <<tsVars, dbVars, planInputs, tars, acknowledgedState,
                   lastRequestForDevice, planVars, passVars, calls, now, hist>>

\* The mapper of one device: without an app it throws, otherwise the row of
\* the uuid is updated, and fetched from the registry if there is none.
UpdateDevice(e) ==
    /\ exec[e].pc = "devices"
    /\ \E i \in exec[e].todo :
          LET device == exec[e].step.devices[i]
          IN  IF DOMAIN device.apps = {}
              THEN /\ exec' = [exec EXCEPT ![e] = Rejection(e,
                         "Could not find an app for the dependent device")]
                   /\ UNCHANGED dependentDevice
              ELSE IF device.uuid \in DOMAIN dependentDevice
              THEN /\ dependentDevice' = [dependentDevice EXCEPT
                         ![device.uuid] = UpdatedRow(@, device)]
                   /\ exec' = [exec EXCEPT
                         ![e].todo = @ \ {i},
                         ![e].wrote = @ \/ UpdatedRow(dependentDevice[device.uuid],
                                                      device)
                                             # dependentDevice[device.uuid]]
              ELSE /\ exec' = [exec EXCEPT ![e].todo = @ \ {i},
                                           ![e].fetching = @ \cup {i}]
                   /\ UNCHANGED dependentDevice
    /\ UNCHANGED <<tsVars, dependentApp, dependentAppTarget,
                   dependentDeviceTarget, planInputs, tars, acknowledgedState,
                   lastRequestForDevice, planVars, passVars, calls, now, hist>>

\* fetchDevice resolved and the row is inserted; a uuid that has a row by now
\* makes the insert fail.
UpdateFetched(e) ==
    /\ exec[e].pc = "devices"
    /\ \E i \in exec[e].fetching :
          LET device == exec[e].step.devices[i]
          IN  IF device.uuid \in DOMAIN dependentDevice
              THEN /\ exec' = [exec EXCEPT ![e] = Rejection(e, "insert")]
                   /\ UNCHANGED dependentDevice
              ELSE \E dev \in fetchDevice(device.uuid) :
                      /\ dependentDevice' =
                            [u \in DOMAIN dependentDevice \cup {device.uuid} |->
                                IF u = device.uuid THEN deviceForDB(device, dev)
                                ELSE dependentDevice[u]]
                      /\ exec' = [exec EXCEPT ![e].fetching = @ \ {i},
                                                   ![e].wrote = TRUE]
    /\ UNCHANGED <<tsVars, dependentApp, dependentAppTarget,
                   dependentDeviceTarget, planInputs, tars, acknowledgedState,
                   lastRequestForDevice, planVars, passVars, calls, now, hist>>
\* .where({ appId: step.appId }).whereNotIn('uuid', _.map(step.devices, 'uuid'))
NotInStep(step) ==
    {u \in DOMAIN dependentDevice :
        /\ dependentDevice[u].appId = step.appId
        /\ \A i \in DOMAIN step.devices : step.devices[i].uuid # u}

\* Every mapper is done: the rows of the app that the step does not list are
\* marked for deletion.
UpdateMark(e) ==
    /\ exec[e].pc = "devices"
    /\ exec[e].todo = {} /\ exec[e].fetching = {}
    /\ dependentDevice' =
          [u \in DOMAIN dependentDevice |->
              IF u \in NotInStep(exec[e].step)
              THEN [dependentDevice[u] EXCEPT !.markedForDeletion = TRUE]
              ELSE dependentDevice[u]]
    /\ exec' = [exec EXCEPT ![e] =
          [pc |-> "app", step |-> exec[e].step,
           wrote |-> \/ exec[e].wrote
                     \/ \E u \in NotInStep(exec[e].step) :
                           ~dependentDevice[u].markedForDeletion]]
    /\ UNCHANGED <<tsVars, dependentApp, dependentAppTarget,
                   dependentDeviceTarget, planInputs, tars, acknowledgedState,
                   lastRequestForDevice, planVars, passVars, calls, now, hist>>

\* db.upsertModel(table, row, id): the row that has the id becomes the given
\* row, and is created if there is none.
upsertModel(table, row, key) ==
    [k \in DOMAIN table \cup {key} |-> IF k = key THEN row ELSE table[k]]

UpdateApp(e) ==
    /\ exec[e].pc = "app"
    /\ dependentApp' = upsertModel(dependentApp,
                          normaliseDependentAppForDB(exec[e].step.app),
                          exec[e].step.appId)
    /\ exec' = [exec EXCEPT ![e] =
          [pc |-> "tars", step |-> exec[e].step,
           wrote |-> exec[e].wrote \/ dependentApp' # dependentApp]]
    /\ UNCHANGED <<tsVars, dependentDevice, dependentAppTarget,
                   dependentDeviceTarget, planInputs, tars, acknowledgedState,
                   lastRequestForDevice, planVars, passVars, calls, now, hist>>

\* tarFilename(appId, commit) in tarDirectory(appId)
tarFilename(appId, commit) == <<appId, commit>>

\* fs.readdir(tarDirectory(appId))
readdir(appId) == {file \in tars : file[1] = appId}

\* _.reject(files, fileToKeep): a string as the predicate is the shorthand of
\* _.property, and a file name, being a string, has no property of that name:
\* the predicate is falsy for every file, and no file is rejected.
reject(files, fileToKeep) == files

\* cleanupTars(appId, commit): the files of the directory that are left after
\* the reject are unlinked.
cleanupTars(appId, commit) ==
    LET files == readdir(appId)
        unlinked == IF commit \notin {Null, Undefined}
                    THEN reject(files, tarFilename(appId, commit))
                    ELSE files
    IN  tars \ unlinked

\* cleanupTars(step.appId, step.app.commit) is done: the step succeeded.
UpdateTars(e) ==
    /\ exec[e].pc = "tars"
    /\ tars' = cleanupTars(exec[e].step.appId, exec[e].step.app.commit)
    /\ exec' = [exec EXCEPT ![e] = [pc |-> "resolved", step |-> exec[e].step]]
    /\ UNCHANGED <<tsVars, dbVars, planInputs, acknowledgedState,
                   lastRequestForDevice, planVars, passVars, calls, now, hist>>

\* The configuration cannot be read, the registry does not answer, a
\* statement fails or a file cannot be removed: the promise of the step is
\* rejected where it stands.
UpdateFails(e) ==
    /\ exec[e].pc \in {"updateDependentTargets", "devices", "app", "tars"}
    /\ exec' = [exec EXCEPT ![e] = Rejection(e, "io")]
    /\ UNCHANGED <<tsVars, dbVars, planInputs, tars, acknowledgedState,
                   lastRequestForDevice, planVars, passVars, calls, now, hist>>

\* A statement that names no app.
devicesOfEveryApp(appId) == DOMAIN dependentDevice

\* trx('dependentDevice').where({ appId: step.appId })
devicesOfApp(appId) ==
    {u \in DOMAIN dependentDevice : dependentDevice[u].appId = appId}

\* db.transaction: the two statements and cleanupTars(step.appId) run inside
\* the transaction, where no other connection sees what they did.
RemoveStatements(e) ==
    /\ exec[e].pc = "removeDependentApp"
    /\ tars' = cleanupTars(exec[e].step.appId, Undefined)
    /\ exec' = [exec EXCEPT ![e] = [pc |-> "commit", step |-> exec[e].step]]
    /\ UNCHANGED <<tsVars, dbVars, planInputs, acknowledgedState,
                   lastRequestForDevice, planVars, passVars, calls, now, hist>>

\* The promise of the transaction resolved: it commits, and both deletions
\* reach the tables together.
RemoveCommit(e) ==
    /\ exec[e].pc = "commit"
    /\ LET appId == exec[e].step.appId
       IN  /\ dependentApp' =
                 [a \in DOMAIN dependentApp \ {appId} |-> dependentApp[a]]
           /\ dependentDevice' =
                 [u \in DOMAIN dependentDevice \ devicesOfApp(appId) |->
                     dependentDevice[u]]
    /\ exec' = [exec EXCEPT ![e] = [pc |-> "resolved", step |-> exec[e].step]]
    /\ UNCHANGED <<tsVars, dependentAppTarget, dependentDeviceTarget,
                   planInputs, tars, acknowledgedState, lastRequestForDevice,
                   planVars, passVars, calls, now, hist>>

\* A statement or cleanupTars failed, or the commit did: the transaction is
\* rolled back and the step fails.
RemoveRollback(e) ==
    /\ exec[e].pc \in {"removeDependentApp", "commit"}
    /\ exec' = [exec EXCEPT ![e] = Rejection(e, "io")]
    /\ UNCHANGED <<tsVars, dbVars, planInputs, tars, acknowledgedState,
                   lastRequestForDevice, planVars, passVars, calls, now, hist>>

(***************************************************************************)
(* setTargetInTransaction(dependent, trx).                                 *)
(***************************************************************************)
\* A map of the desired object that is absent, and the one that is given.
Absent == {}
Given(map) == {map}

\* db.upsertModel for every row, one after the other.
RECURSIVE upsertEach(_, _, _)
upsertEach(table, rows, keys) ==
    IF keys = {} THEN table
    ELSE LET k == CHOOSE key \in keys : TRUE
         IN  upsertEach(upsertModel(table, rows[k], k), rows, keys \ {k})

\* trx(table).whereNotIn(column, keys).del()
whereNotInDel(table, keys) == [k \in DOMAIN table \cap keys |-> table[k]]

\* appClone.appId = checkInt(appId), then normaliseDependentAppForDB.
appsForDB(apps) ==
    [a \in DOMAIN apps |-> normaliseDependentAppForDB([apps[a] EXCEPT !.appId = a])]

\* appCommit || null
OrNull(v) == IF v \in {Null, Undefined, ""} THEN Null ELSE v

normaliseDependentDeviceTargetForDB(device, appCommit) ==
    [uuid |-> device.uuid, name |-> device.name,
     apps |-> stringify([a \in DOMAIN device.apps |->
                 [commit |-> OrNull(appCommit),
                  config |-> Coalesce(device.apps[a].config, "{}"),
                  environment |-> Coalesce(device.apps[a].environment, "{}")]])]

\* dependent.apps[_.keys(device.apps)[0]]?.commit, dependent.apps being there.
CommitFor(device, apps) ==
    IF DOMAIN device.apps = {} \/ HeadAppId(device) \notin DOMAIN apps
    THEN Undefined
    ELSE apps[HeadAppId(device)].commit

\* devClone.uuid = uuid, then normaliseDependentDeviceTargetForDB.
devicesForDB(devices, apps) ==
    [u \in DOMAIN devices |->
        normaliseDependentDeviceTargetForDB(
            [uuid |-> u, name |-> devices[u].name, apps |-> devices[u].apps],
            CommitFor(devices[u], apps))]

\* The mapper of a device reads dependent.apps[appId]: without an apps map
\* that is a TypeError, which rejects the call.
setTargetThrows(dependent) ==
    /\ dependent.apps = Absent
    /\ \E devices \in dependent.devices : DOMAIN devices # {}

\* The two tables when a call that does not throw resolves.
appTargetsAfter(dependent, table) ==
    IF dependent.apps = Absent THEN table
    ELSE LET rows == appsForDB(The(dependent.apps))
         IN  whereNotInDel(upsertEach(table, rows, DOMAIN rows), DOMAIN rows)

deviceTargetsAfter(dependent, table) ==
    IF dependent.devices = Absent THEN table
    ELSE LET rows == devicesForDB(The(dependent.devices), The(dependent.apps))
         IN  whereNotInDel(upsertEach(table, rows, DOMAIN rows), DOMAIN rows)

\* setTargetInTransaction(dependent, trx) is called inside a transaction.
setTargetInTransaction(e, dependent) ==
    /\ Free(e) /\ calls < MaxCalls
    /\ exec' = [exec EXCEPT ![e] = [pc |-> "setTarget", dependent |-> dependent]]
    /\ calls' = calls + 1
    /\ UNCHANGED <<tsVars, dbVars, planInputs, tars, acknowledgedState,
                   lastRequestForDevice, planVars, passVars, now, hist>>

\* Its promise resolved and the transaction is committed: the rows of both
\* tables are those the statements left.
SetTargetCommit(e) ==
    /\ exec[e].pc = "setTarget"
    /\ ~setTargetThrows(exec[e].dependent)
    /\ dependentAppTarget' = appTargetsAfter(exec[e].dependent, dependentAppTarget)
    /\ dependentDeviceTarget' =
          deviceTargetsAfter(exec[e].dependent, dependentDeviceTarget)
    /\ exec' = [exec EXCEPT ![e] =
          [pc |-> "resolved", dependent |-> exec[e].dependent,
           tables |-> <<dependentAppTarget', dependentDeviceTarget'>>]]
    /\ UNCHANGED <<tsVars, dependentApp, dependentDevice, planInputs, tars,
                   acknowledgedState, lastRequestForDevice, planVars,
                   passVars, calls, now, hist>>

\* It threw, or a statement or the commit failed: the transaction is rolled
\* back.
SetTargetRollback(e) ==
    /\ exec[e].pc = "setTarget"
    /\ exec' = [exec EXCEPT ![e] =
          [pc |-> "rejected", action |-> "setTarget",
           error |-> IF setTargetThrows(exec[e].dependent)
                     THEN "TypeError" ELSE "io"]]
    /\ UNCHANGED <<tsVars, dbVars, planInputs, tars, acknowledgedState,
                   lastRequestForDevice, planVars, passVars, calls, now, hist>>

(***************************************************************************)
(* The rows and inputs the planner is checked on.                          *)
(***************************************************************************)
App(appId, commit, image, imageId) ==
    [appId |-> appId, name |-> "app", commit |-> commit, releaseId |-> commit,
     imageId |-> imageId, parentApp |-> 100, image |-> image,
     config |-> "{}", environment |-> "{}"]

\* The releases of a dependent app: two complete ones, one without a commit
\* and one without an image.
Releases(a) ==
    {App(a, "abc", "imgA:latest", "11"), App(a, "def", "imgB:latest", "12")}
Incomplete(a) == {App(a, Null, "imgA:latest", "11"), App(a, "abc", Null, Null)}

DeviceRow(uuid, appId, commit, targetCommit, marked) ==
    [uuid |-> uuid, appId |-> appId, name |-> "dev", deviceId |-> uuid,
     device_type |-> "generic", commit |-> commit, config |-> stringify("{}"),
     environment |-> stringify("{}"), targetCommit |-> targetCommit,
     targetConfig |-> stringify("{}"), targetEnvironment |-> stringify("{}"),
     markedForDeletion |-> marked, lock_expiry_date |-> Null]

DeviceTargetRow(uuid, appId, commit) ==
    [uuid |-> uuid, name |-> "dev",
     apps |-> stringify([a \in {appId} |->
                 [commit |-> commit, config |-> "{}", environment |-> "{}"]])]

\* The tables over some of the keys, each row among those of its key.
Tables(keys, RowsFor(_)) ==
    UNION {{t \in [present -> UNION {RowsFor(k) : k \in present}] :
               \A k \in present : t[k] \in RowsFor(k)} :
           present \in SUBSET keys}

AppRows(a) ==
    {normaliseDependentAppForDB(app) :
        app \in IF a = 1 THEN Releases(a) ELSE {App(a, "abc", "imgA:latest", "11")}}
AppTargetRows(a) ==
    {normaliseDependentAppForDB(app) :
        app \in IF a = 1 THEN Releases(a) \cup Incomplete(a)
                ELSE {App(a, "abc", "imgA:latest", "11")}}
DeviceRows(u) ==
    IF u = "u1"
    THEN {DeviceRow(u, 1, "abc", t, m) :
             t \in {Null, "abc", "def"}, m \in BOOLEAN}
    ELSE {DeviceRow(u, 2, "abc", t, FALSE) : t \in {"abc", "def"}}
         \cup {[DeviceRow(u, 2, "abc", "abc", FALSE) EXCEPT !.lock_expiry_date = "2030"]}
DeviceTargetRows(u) ==
    IF u = "u1" THEN {DeviceTargetRow(u, 1, c) : c \in {"abc", "def"}}
    ELSE {DeviceTargetRow(u, 2, "abc"),
          [DeviceTargetRow(u, 2, "abc") EXCEPT !.name = "dev2"]}

(***************************************************************************)
(* The specification.                                                      *)
(***************************************************************************)
TsInit ==
    /\ remote \in RemoteDocs
    /\ cache = NoCache
    /\ heap = [r \in Refs |-> Unallocated]
    /\ lockHolder = NoHolder
    /\ lastFetch = NeverFetched
    /\ upc = [p \in Proc |-> "none"]
    /\ sent = [p \in Proc |-> NoHeader]
    /\ uargs = [p \in Proc |-> [force |-> FALSE, isFromApi |-> FALSE]]
    /\ outcome = [p \in Proc |-> "pending"]
    /\ emitted = [p \in Proc |-> 0]
    /\ stamped = [p \in Proc |-> FALSE]
    /\ lastEvent = NoEvent
    /\ gpc = [p \in Callers |-> "none"]
    /\ gres = [p \in Callers |-> NoRef]
    /\ started = FALSE
    /\ ppc = "unstarted"
    /\ instantUpdates = Unread
    /\ skipFirstGet = FALSE
    /\ appUpdatePollInterval = 0
    /\ pollInterval = 0
    /\ delayMs = 0
    /\ targetStateFetchErrors = 0
    /\ consecFails = 0

\* The proxyvisor after construction, over a database without rows.
PvInit ==
    /\ dependentApp = <<>>
    /\ dependentDevice = <<>>
    /\ dependentAppTarget = <<>>
    /\ dependentDeviceTarget = <<>>
    /\ availableImages = {}
    /\ downloading = {}
    /\ stepsInProgress = {}
    /\ tars = {}
    /\ acknowledgedState = [u \in Uuids |-> AckUndefined]
    /\ lastRequestForDevice = [u \in Uuids |-> NeverRequested]
    /\ steps = <<>>
    /\ stepsForApp = <<>>
    /\ passes = 0
    /\ planned = NotPlanned
    /\ exec = [e \in Execs |-> IdleExec]
    /\ calls = 0
    /\ now = 0
    /\ hist = [u \in Uuids |-> NoRequests]

Init == TsInit /\ PvInit

UpdateStep(p) ==
    \/ UpdateAcquire(p)
    \/ UpdateConfigFails(p)
    \/ UpdateRequest(p)
    \/ UpdateRequestFails(p)
    \/ UpdateResponse(p)
    \/ UpdateRelease(p)
    \/ UpdateFinally(p)

CallerStep(p) ==
    \/ CallUpdate(p)
    \/ UpdateReturn(p)
    \/ CallGet(p)
    \/ GetResume(p)
    \/ GetDone(p)

PollStep ==
    \/ StartPoll
    \/ StartPollConfig
    \/ PollConfig
    \/ PollConfigFails
    \/ PollUpdateSettled
    \/ PollWake

Next ==
    \/ \E p \in Callers : UpdateStep(p)
    \/ \E p \in Callers : CallerStep(p)
    \/ \E ref \in Refs : Mutate(ref)
    \/ RemoteChange

Spec == Init /\ [][Next]_vars

\* The poller and a caller of update() it shares the fetch lock with.
PollPeers == {"c1"}

NextPoll ==
    \/ PollStep
    \/ \E p \in PollPeers \cup {Poller} : UpdateStep(p)
    \/ \E p \in PollPeers : CallUpdate(p) \/ UpdateReturn(p)

SpecPoll == Init /\ [][NextPoll]_vars

\* Every await of the poller and of the update() calls returns: a configuration
\* read succeeds or fails, a request is answered, fails or times out, a delay
\* elapses. The lock serves its waiters in turn, so the poller is not overtaken
\* for ever; and the configuration store does not fail for ever.
PollFairness ==
    /\ WF_vars(StartPollConfig)
    /\ WF_vars(PollConfig \/ PollConfigFails)
    /\ SF_vars(PollConfig)
    /\ WF_vars(PollUpdateSettled)
    /\ WF_vars(PollWake)
    /\ SF_vars(UpdateAcquire(Poller))
    /\ \A p \in PollPeers \cup {Poller} :
          /\ WF_vars(UpdateRequest(p) \/ UpdateConfigFails(p))
          /\ WF_vars(UpdateResponse(p) \/ UpdateRequestFails(p))
          /\ WF_vars(UpdateRelease(p))
          /\ WF_vars(UpdateFinally(p))

\* The poller does not read the document: one remote document is enough here.
InitOneDoc == Init /\ remote = [body |-> "b1", etag |-> "e1"]

FairSpecPoll == InitOneDoc /\ [][NextPoll]_vars /\ PollFairness

\* The lock grants in the order of the requests, so no waiter is overtaken for
\* ever: neither the poller nor a direct caller.
LockFairness == \A p \in PollPeers : SF_vars(UpdateAcquire(p))

FairSpecLock == InitOneDoc /\ [][NextPoll]_vars /\ PollFairness /\ LockFairness

\* The planner on every combination of rows and inputs.
InitPlan ==
    /\ TsInit /\ remote = [body |-> "b1", etag |-> "e1"]
    /\ dependentApp \in Tables(AppIds, AppRows)
    /\ dependentDevice \in Tables(Uuids, DeviceRows)
    /\ dependentAppTarget \in Tables(AppIds, AppTargetRows)
    /\ dependentDeviceTarget \in Tables(Uuids, DeviceTargetRows)
    /\ availableImages \in SUBSET {[name |-> "imgA:latest"], [name |-> "imgB:latest"]}
    /\ downloading \in SUBSET {"11"}
    /\ stepsInProgress \in SUBSET {[appId |-> 100]}
    /\ tars = {}
    /\ acknowledgedState = [u \in Uuids |-> AckUndefined]
    /\ lastRequestForDevice = [u \in Uuids |-> NeverRequested]
    /\ steps = <<>>
    /\ stepsForApp = <<>>
    /\ passes = 0
    /\ planned = NotPlanned
    /\ exec = [e \in Execs |-> IdleExec]
    /\ calls = 0
    /\ now = 0
    /\ hist = [u \in Uuids |-> NoRequests]

NextPlan == Plan /\ passes = 0 /\ passes' = 1

SpecPlan == InitPlan /\ [][NextPlan]_vars

\* The planner on stores that are settled: the current apps are the target
\* apps, the device rows that are not marked for deletion hold the targets of
\* the target rows, and each device has or has not acknowledged a target.
SettledDeviceRows(u) ==
    IF u = "u1"
    THEN {DeviceRow(u, 1, c, t, mk) :
             c \in {"abc", "def"}, t \in {Null, "abc", "def"}, mk \in BOOLEAN}
    ELSE {DeviceRow(u, a, "abc", t, mk) :
             a \in AppIds, t \in {"abc", "def"}, mk \in BOOLEAN}

Acknowledgements(u) ==
    {AckUndefined, AckNull}
    \cup {[appId |-> 1, commit |-> c, config |-> "{}", environment |-> "{}"] :
             c \in {"abc", "def"}}

InitSettled ==
    /\ TsInit /\ remote = [body |-> "b1", etag |-> "e1"]
    /\ dependentAppTarget \in Tables(AppIds, AppTargetRows)
    /\ dependentApp = dependentAppTarget
    /\ dependentDevice \in Tables(Uuids, SettledDeviceRows)
    /\ dependentDeviceTarget =
          [u \in {v \in DOMAIN dependentDevice : ~dependentDevice[v].markedForDeletion}
             |-> DeviceTargetRow(u, dependentDevice[u].appId,
                                 dependentDevice[u].targetCommit)]
    /\ availableImages \in SUBSET {[name |-> "imgA:latest"], [name |-> "imgB:latest"]}
    /\ downloading = {}
    /\ stepsInProgress = {}
    /\ tars = {}
    /\ acknowledgedState \in [Uuids -> UNION {Acknowledgements(u) : u \in Uuids}]
    /\ lastRequestForDevice = [u \in Uuids |-> NeverRequested]
    /\ steps = <<>>
    /\ stepsForApp = <<>>
    /\ passes = 0
    /\ planned = NotPlanned
    /\ exec = [e \in Execs |-> IdleExec]
    /\ calls = 0
    /\ now = 0
    /\ hist = [u \in Uuids |-> NoRequests]

SpecSettled == InitSettled /\ [][NextPlan]_vars

\* The hooks of one dependent app that is up to date, with two devices whose
\* target is not their current state; the second may be marked for deletion.
InitHooks ==
    /\ TsInit /\ remote = [body |-> "b1", etag |-> "e1"]
    /\ dependentApp =
          [a \in {1} |-> normaliseDependentAppForDB(App(1, "def", "imgB:latest", "12"))]
    /\ dependentAppTarget = dependentApp
    /\ \E marked \in BOOLEAN :
          /\ dependentDevice =
                [u \in Uuids |-> DeviceRow(u, 1, "abc", "def", u = "u2" /\ marked)]
          /\ dependentDeviceTarget =
                [u \in IF marked THEN {"u1"} ELSE Uuids |-> DeviceTargetRow(u, 1, "def")]
    /\ availableImages = {[name |-> "imgB:latest"]}
    /\ downloading = {}
    /\ stepsInProgress = {}
    /\ tars = {}
    /\ acknowledgedState = [u \in Uuids |-> AckUndefined]
    /\ lastRequestForDevice = [u \in Uuids |-> NeverRequested]
    /\ steps = <<>>
    /\ stepsForApp = <<>>
    /\ passes = 0
    /\ planned = NotPlanned
    /\ exec = [e \in Execs |-> IdleExec]
    /\ calls = 0
    /\ now = 0
    /\ hist = [u \in Uuids |-> NoRequests]

PlanPass == passes < MaxPasses /\ Plan /\ passes' = passes + 1

HookStep(e) ==
    \/ HooksResolve(e)
    \/ HooksResolveFails(e)
    \/ HookWake(e)
    \/ HookSend(e)
    \/ HookAnswered(e)
    \/ HookTimesOut(e)

SendUpdatesStep(e) ==
    \/ \E uuid \in Uuids : sendUpdates(e, uuid)
    \/ SendUpdatesRead(e)
    \/ SendUpdatesEndpoint(e)
    \/ SendUpdatesFails(e)

NextHooks ==
    \/ PlanPass
    \/ \E e \in Execs : ExecutePlanned(e) \/ Return(e)
    \/ \E e \in Execs : HookStep(e)
    \/ \E e \in Execs : SendUpdatesStep(e)
    \/ Tick

SpecHooks == InitHooks /\ [][NextHooks]_vars

\* Time passes, a delay that is over ends, a request that may start starts,
\* and every request is answered or times out.
HookFairness ==
    /\ WF_vars(Tick)
    /\ \A e \in Execs :
          /\ WF_vars(HookWake(e))
          /\ WF_vars(HookSend(e))
          /\ WF_vars(HookAnswered(e) \/ HookTimesOut(e))

FairSpecHooks == InitHooks /\ [][NextHooks]_vars /\ HookFairness


\* Steps that no planning pass gives: names that are no executor, and an
\* update whose device has no app.
ForeignSteps ==
    {[action |-> a] : a \in InheritedFunctions \cup InheritedObjects \cup {"restart"}}
    \cup {[action |-> "updateDependentTargets", appId |-> 1,
           app |-> App(1, "def", "imgB:latest", "12"),
           devices |-> <<[uuid |-> "u1", name |-> "dev", apps |-> <<>>]>>]}

ExecuteForeign(e) == \E step \in ForeignSteps : executeStepAction(e, step)

\* The tarballs cached before: two releases of app 1 and one of app 2.
CachedTars == {<<1, "abc">>, <<1, "def">>, <<2, "abc">>}

\* The executors on one app that is to be created, updated or removed, with a
\* device that has a row or not and a target or not, beside another app that
\* is to be removed and a device of either that has no target; the first
\* device may be marked for deletion, and the image of the target is there,
\* is missing or is being downloaded.
InitExec ==
    /\ TsInit /\ remote = [body |-> "b1", etag |-> "e1"]
    /\ dependentApp \in Tables(AppIds,
          LAMBDA a : {normaliseDependentAppForDB(App(a, "abc", "imgA:latest", "11"))})
    /\ dependentAppTarget \in Tables({1},
          LAMBDA a : {normaliseDependentAppForDB(App(a, "def", "imgB:latest", "12"))})
    /\ dependentDevice \in Tables(Uuids, LAMBDA u :
          IF u = "u1" THEN {DeviceRow(u, 1, "abc", "abc", m) : m \in BOOLEAN}
          ELSE {DeviceRow(u, a, "abc", "abc", FALSE) : a \in AppIds})
    /\ dependentDeviceTarget \in Tables({"u1"},
          LAMBDA u : {DeviceTargetRow(u, 1, "def")})
    /\ \E images \in {<<{[name |-> "imgB:latest"]}, {}>>, <<{}, {}>>, <<{}, {"12"}>>} :
          availableImages = images[1] /\ downloading = images[2]
    /\ stepsInProgress = {}
    /\ tars = CachedTars
    /\ acknowledgedState = [u \in Uuids |-> AckUndefined]
    /\ lastRequestForDevice = [u \in Uuids |-> NeverRequested]
    /\ steps = <<>>
    /\ stepsForApp = <<>>
    /\ passes = 0
    /\ planned = NotPlanned
    /\ exec = [e \in Execs |-> IdleExec]
    /\ calls = 0
    /\ now = 0
    /\ hist = [u \in Uuids |-> NoRequests]

TargetsStep(e) ==
    \/ UpdateConfig(e)
    \/ UpdateDevice(e)
    \/ UpdateFetched(e)
    \/ UpdateMark(e)
    \/ UpdateApp(e)
    \/ UpdateTars(e)
    \/ UpdateFails(e)

RemoveStep(e) ==
    \/ RemoveStatements(e)
    \/ RemoveCommit(e)
    \/ RemoveRollback(e)

NextExec ==
    \/ PlanPass
    \/ \E e \in Execs : ExecutePlanned(e) \/ ExecuteForeign(e) \/ Return(e)
    \/ \E e \in Execs : TargetsStep(e)
    \/ \E e \in Execs : RemoveStep(e)

SpecExec == InitExec /\ [][NextExec]_vars

\* The reconciliation loop on a store whose target is fixed and whose device
\* rows and target devices are those of apps that have a row: a pass once the
\* steps of the pass before have all been executed, each step run to its end
\* before the next, calls counting the steps of the pass that were started.
\* Every image is there, the registry answers, every statement succeeds and
\* every hook is answered with 200.
ReconcilePass ==
    /\ \A e \in Execs : exec[e].pc = "idle"
    /\ passes = 0 \/ calls = Len(steps)
    /\ LET current == getCurrentStates(dependentApp, dependentDevice)
           target == getTarget(dependentAppTarget, dependentDeviceTarget)
       IN  /\ steps' = getRequiredSteps(availableImages, downloading, current,
                                        target, stepsInProgress)
           /\ stepsForApp' = StepsByApp(availableImages, downloading, current,
                                        target, stepsInProgress)
           /\ planned' = [args |-> <<availableImages, downloading, current,
                                     target, stepsInProgress>>,
                           acknowledged |-> acknowledgedState,
                           lastRequest |-> lastRequestForDevice]
    /\ passes' = Min(passes + 1, MaxPasses)
    /\ calls' = 0
    /\ UNCHANGED <<tsVars, dbVars, planInputs, tars, acknowledgedState,
                   lastRequestForDevice, exec, now, hist>>

ReconcileStep ==
    /\ passes >= 1 /\ calls < Len(steps)
    /\ executeStepAction("e1", steps[calls + 1])

InitConverge ==
    /\ TsInit /\ remote = [body |-> "b1", etag |-> "e1"]
    /\ dependentApp \in Tables(AppIds,
          LAMBDA a : {normaliseDependentAppForDB(App(a, "abc", "imgA:latest", "11"))})
    /\ dependentAppTarget \in Tables({1},
          LAMBDA a : {normaliseDependentAppForDB(App(a, "def", "imgB:latest", "12"))})
    /\ dependentDevice \in Tables(Uuids, LAMBDA u :
          IF u = "u1" THEN {DeviceRow(u, 1, "abc", "abc", mk) : mk \in BOOLEAN}
          ELSE {DeviceRow(u, a, "abc", "abc", mk) : a \in AppIds, mk \in BOOLEAN})
    /\ dependentDeviceTarget \in Tables(Uuids, LAMBDA u : {DeviceTargetRow(u, 1, "def")})
    /\ \A u \in DOMAIN dependentDevice : dependentDevice[u].appId \in DOMAIN dependentApp
    /\ dependentDeviceTarget # <<>> => dependentAppTarget # <<>>
    /\ availableImages = {[name |-> "imgA:latest"], [name |-> "imgB:latest"]}
    /\ downloading = {}
    /\ stepsInProgress = {}
    /\ tars = CachedTars
    /\ acknowledgedState = [u \in Uuids |-> AckUndefined]
    /\ lastRequestForDevice = [u \in Uuids |-> NeverRequested]
    /\ steps = <<>>
    /\ stepsForApp = <<>>
    /\ passes = 0
    /\ planned = NotPlanned
    /\ exec = [e \in Execs |-> IdleExec]
    /\ calls = 0
    /\ now = 0
    /\ hist = [u \in Uuids |-> NoRequests]

NextConverge ==
    \/ ReconcilePass
    \/ ReconcileStep
    \/ UpdateConfig("e1")
    \/ UpdateDevice("e1")
    \/ UpdateFetched("e1")
    \/ UpdateMark("e1")
    \/ UpdateApp("e1")
    \/ UpdateTars("e1")
    \/ RemoveStatements("e1")
    \/ RemoveCommit("e1")
    \/ HooksResolve("e1")
    \/ HookSend("e1")
    \/ HookAnsweredWith("e1", 200)
    \/ Return("e1")

\* The loop goes on: whatever step it can take, it takes.
FairSpecConverge == InitConverge /\ [][NextConverge]_vars /\ WF_vars(NextConverge)

\* The desired objects: an apps map that is absent, empty, or has one or two
\* apps, one of them without a commit, and a devices map that is absent,
\* empty, or has one or two devices, one of them without an app.
DesiredApps ==
    {<<>>, [a \in {1} |-> App(1, "def", "imgB", "12")],
     [a \in {1} |-> App(1, Null, "imgA:latest", "11")],
     [a \in AppIds |-> App(a, "abc", "imgA:latest", "11")]}
DesiredDevice(a) ==
    [name |-> "dev",
     apps |-> [x \in {a} |-> [config |-> "{}", environment |-> Undefined]]]
DesiredDevices ==
    {<<>>, [u \in {"u1"} |-> DesiredDevice(1)],
     [u \in Uuids |-> DesiredDevice(IF u = "u1" THEN 1 ELSE 2)],
     [u \in {"u2"} |-> [name |-> "dev", apps |-> <<>>]]}
Desired ==
    {[apps |-> apps, devices |-> devices] :
        apps \in {Absent} \cup {Given(m) : m \in DesiredApps},
        devices \in {Absent} \cup {Given(m) : m \in DesiredDevices}}

\* The target tables with any rows, and nothing else.
InitTarget ==
    /\ TsInit /\ remote = [body |-> "b1", etag |-> "e1"]
    /\ dependentApp = <<>>
    /\ dependentDevice = <<>>
    /\ dependentAppTarget \in Tables(AppIds, AppTargetRows)
    /\ dependentDeviceTarget \in Tables(Uuids, DeviceTargetRows)
    /\ availableImages = {}
    /\ downloading = {}
    /\ stepsInProgress = {}
    /\ tars = {}
    /\ acknowledgedState = [u \in Uuids |-> AckUndefined]
    /\ lastRequestForDevice = [u \in Uuids |-> NeverRequested]
    /\ steps = <<>>
    /\ stepsForApp = <<>>
    /\ passes = 0
    /\ planned = NotPlanned
    /\ exec = [e \in Execs |-> IdleExec]
    /\ calls = 0
    /\ now = 0
    /\ hist = [u \in Uuids |-> NoRequests]

NextTarget ==
    \/ \E e \in Execs : \E dependent \in Desired : setTargetInTransaction(e, dependent)
    \/ \E e \in Execs : SetTargetCommit(e) \/ SetTargetRollback(e)
    \/ \E e \in Execs : Return(e)

SpecTarget == InitTarget /\ [][NextTarget]_vars
(***************************************************************************)
(* Properties of update() and get().                                       *)
(***************************************************************************)
\* What the cache holds, by value.
CacheContent ==
    IF cache = NoCache THEN <<"null", "null">> ELSE <<cache.etag, heap[cache.body]>>

\* The step in which the body of p's update() ends with `how`.
BodyEnds(p, how) == upc[p] # "release" /\ upc'[p] = "release" /\ outcome'[p] = how

\* p holds the fetch lock: from the grant to the disposer's release.
InLock(p) == upc[p] \in {"config", "request", "release"}

\* C1: at most one update() is between the grant of the fetch lock and its
\* release, so the request and the cache write of one call never interleave
\* with those of another, and the lock's holder is that call.
C1_MutualExclusion ==
    /\ \A p, q \in Proc : (InLock(p) /\ InLock(q)) => p = q
    /\ \A p \in Proc : InLock(p) <=> lockHolder = p

\* A request is in flight while another update() waits for the lock.
C1_Witness == upc[Poller] = "request" /\ upc["c1"] = "lock"

\* C2: with a cache that holds a document and its token, and a remote that still
\* publishes that document with that token, an update() answered as the
\* endpoint's contract answers its request leaves the cache as it was and emits
\* no event.
C2_Idempotence ==
    [][\A p \in Proc :
          ( /\ \E how \in {"200", "304"} :
                  /\ BodyEnds(p, how)
                  /\ how = IF ContractStatus(sent[p]) = 200 THEN "200" ELSE "304"
            /\ cache # NoCache
            /\ cache.etag \in Etags
            /\ remote.etag = cache.etag
            /\ remote.body = heap[cache.body] )
          => (CacheContent' = CacheContent /\ emitted' = emitted
              /\ lastEvent' = lastEvent)]_vars

\* C3: an update() that fetches a changed document emits one event, carrying a
\* value equal to the new body and the flags of the call, and leaves the new body
\* and the answer's token in the cache; no other step of the call emits.
C3_ChangePropagation ==
    /\ [][\A p \in Proc :
            ( /\ BodyEnds(p, "200")
              /\ CacheContent # <<remote.etag, remote.body>> )
            => /\ emitted[p] = 0 /\ emitted'[p] = 1
               /\ lastEvent'.body \in Refs
               /\ heap'[lastEvent'.body] = remote.body
               /\ lastEvent'.force = uargs[p].force
               /\ lastEvent'.isFromApi = uargs[p].isFromApi
               /\ CacheContent' = <<remote.etag, remote.body>>]_vars
    /\ [][\A p \in Proc :
            (emitted'[p] # emitted[p] /\ emitted'[p] # 0)
            => \E how \in {"200", "http-error"} : BodyEnds(p, how)]_vars

\* c1's update(true, false) has fetched b2 where the cache held b1 (the body
\* c2's get() returned), and emitted its one event.
C3_Witness ==
    /\ upc["c1"] = "release" /\ outcome["c1"] = "200" /\ emitted["c1"] = 1
    /\ heap[cache.body] = "b2" /\ lastEvent.force /\ ~lastEvent.isFromApi
    /\ heap[lastEvent.body] = "b2"
    /\ gres["c2"] \in Refs /\ heap[gres["c2"]] = "b1"

\* The ways the body of update() ends without a new document.
Unfetched == {"304", "config-error", "endpoint-not-string", "timeout",
              "transport-error"}

\* C4: the cache and the event go together: a call that ends with a 304, a
\* configuration error, a timeout or a transport error changes neither the
\* cache nor the events; no step but the one handling another answer changes the
\* cache or emits, and that step replaces token and body by those of the one
\* answer and emits in the same step.
C4_AllOrNothing ==
    /\ [][\A p \in Proc : \A how \in Unfetched :
            BodyEnds(p, how)
            => (cache' = cache /\ CacheContent' = CacheContent
                /\ emitted' = emitted /\ lastEvent' = lastEvent)]_vars
    /\ [][(cache' # cache \/ CacheContent' # CacheContent \/ lastEvent' # lastEvent)
            => \E p \in Proc :
                  /\ \/ BodyEnds(p, "200")
                        /\ CacheContent' = <<remote.etag, remote.body>>
                     \/ BodyEnds(p, "http-error")
                        /\ CacheContent' = <<NoEtag, ErrBody>>
                  /\ cache'.body \in Refs /\ cache'.body # cache.body
                  /\ emitted'[p] = emitted[p] + 1
                  /\ lastEvent'.body \in Refs
                  /\ heap'[lastEvent'.body] = heap'[cache'.body]]_vars

\* A call has timed out with the cache, filled before, as it was.
C4_Witness ==
    /\ upc["c1"] = "release" /\ outcome["c1"] = "timeout" /\ emitted["c1"] = 0
    /\ cache # NoCache /\ heap[cache.body] = "b1" /\ cache.etag = "e1"
    /\ remote.body = "b2"

\* C5: an update() answered with an HTTP error status fails, leaves the cache as
\* it was and emits no event.
C5_HttpErrorPropagates ==
    [][\A p \in Proc :
          BodyEnds(p, "http-error")
          => (Rejected(outcome'[p]) /\ CacheContent' = CacheContent
              /\ emitted' = emitted /\ lastEvent' = lastEvent)]_vars

\* C6: when update() settles for its caller, however its body ended, its
\* finalizer has run, and the finalizer is what wrote lastFetch; a get() whose
\* update() was rejected fails after that.
C6_LastFetchRecorded ==
    /\ [](\A p \in Proc : upc[p] = "settled" => (stamped[p] /\ lastFetch # NeverFetched))
    /\ [][\A p \in Proc :
            (upc[p] = "finally" /\ upc'[p] = "settled") => lastFetch' = p]_vars
    /\ [][\A p \in Callers :
            ( /\ gpc[p] = "update" /\ gpc'[p] = "returned"
              /\ outcome[p] \in {"config-error", "endpoint-not-string", "timeout",
                                 "transport-error"} )
            => (stamped[p] /\ gres'[p] = Fail)]_vars

\* An update() that timed out has settled, its timestamp written.
C6_Witness ==
    /\ upc["c1"] = "settled" /\ outcome["c1"] = "timeout"
    /\ stamped["c1"] /\ lastFetch = "c1"

\* C7: get() calls update() exactly when the cache is empty; with a cache it
\* returns in the same step, fetching and emitting nothing. What it returns is
\* a failure or an object whose content is the cached body's; it is a failure
\* when its update() was rejected or left the cache empty.
C7_Get ==
    [][\A p \in Callers :
          /\ (gpc[p] = "none" /\ gpc'[p] # "none")
             => /\ (gpc'[p] = "update" /\ upc'[p] = "lock") <=> cache = NoCache
                /\ cache # NoCache
                   => (gpc'[p] = "returned"
                       /\ UNCHANGED <<cache, upc, sent, emitted, lastEvent>>)
          /\ (gpc[p] # "returned" /\ gpc'[p] = "returned")
             => \/ gres'[p] = Fail
                \/ /\ gres'[p] \in Refs
                   /\ cache' # NoCache
                   /\ heap'[gres'[p]] = heap'[cache'.body]
                   /\ heap'[gres'[p]] \notin {Unallocated, Mutated}
          /\ ( /\ gpc[p] = "update" /\ gpc'[p] = "returned"
               /\ \/ cache = NoCache
                  \/ outcome[p] \in {"config-error", "endpoint-not-string",
                                     "timeout", "transport-error"} )
             => gres'[p] = Fail]_vars

\* A get() on an empty cache has failed: its update() got a 304 and left the
\* cache empty.
C7_Witness ==
    /\ gpc["c1"] = "returned" /\ gres["c1"] = Fail
    /\ cache = NoCache /\ lastFetch = "c1" /\ upc["c2"] = "none"
    /\ lastEvent = NoEvent

\* The consumers: the callers of get() and the listener of the event.
Holders == Callers \cup {"listener"}
HeldBy(h) == IF h = "listener" THEN lastEvent.body ELSE gres[h]

\* C8: an object a consumer changes is held by that consumer alone and is not
\* the cached body, so the change reaches neither the cache nor what another
\* consumer holds; the cached body is never a changed object.
C8_NonAliasing ==
    /\ [][\A r \in Refs :
            (heap[r] \notin {Mutated, Unallocated} /\ heap'[r] = Mutated)
            => /\ cache.body # r
               /\ Cardinality({h \in Holders : HeldBy(h) = r}) = 1
               /\ CacheContent' = CacheContent]_vars
    /\ [](cache # NoCache => heap[cache.body] # Mutated)

\* c1 has changed what get() gave it; the cache, c2's copy and the listener's
\* payload still hold the document.
C8_Witness ==
    /\ gres["c1"] \in Refs /\ heap[gres["c1"]] = Mutated
    /\ cache # NoCache /\ heap[cache.body] = "b1"
    /\ gres["c2"] \in Refs /\ heap[gres["c2"]] = "b1"
    /\ lastEvent # NoEvent /\ heap[lastEvent.body] = "b1"

(***************************************************************************)
(* Properties of the poller.                                               *)
(***************************************************************************)
\* C9: once started the poller never stops: every cycle ends in a sleep, every
\* sleep (the delay of the try block or the fallback of the catch) is followed
\* by another cycle, and update() is attempted again and again.
C9_PollerNeverStops ==
    /\ [](started => <>(ppc \in {"delay", "fallback"}))
    /\ [](ppc \in {"delay", "fallback"} => <>(ppc = "poll"))
    /\ [](started => <>(ppc = "update" /\ upc[Poller] = "lock"))

\* After two failed fetches in a row the poller has a request in flight again.
C9_Witness == ppc = "update" /\ upc[Poller] = "request" /\ consecFails = 2

\* C10: the counter is the number of consecutive failed fetches of the poller.
\* The sleep after the n-th of them (n = consecFails - 1, from 0) is
\* min(nominal, 15000 * 2^n), never above the nominal interval; after a fetch
\* that succeeded the counter is 0 and the sleep is in
\* [nominal, nominal + maxJitter).
C10_Backoff ==
    /\ targetStateFetchErrors = consecFails
    /\ ppc = "delay" =>
          IF consecFails > 0
          THEN /\ delayMs = Min(appUpdatePollInterval,
                                BackoffBase * 2 ^ (consecFails - 1))
               /\ delayMs <= appUpdatePollInterval
          ELSE /\ targetStateFetchErrors = 0
               /\ delayMs >= appUpdatePollInterval
               /\ delayMs < appUpdatePollInterval + MaxApiJitterDelay

\* The third failure in a row (n = 2) with a nominal interval of 100 s: 60 s.
C10_Witness ==
    /\ ppc = "delay" /\ consecFails = 3
    /\ appUpdatePollInterval = 100000 /\ delayMs = 60000

\* C11: startPoll() starts at most one poll loop: once it has been called, no
\* later call runs its body again. The first cycle of the loop goes straight to
\* its sleep exactly when the instantUpdates setting was read as false or could
\* not be read; every other cycle that reads its configuration begins one
\* update() call.
C11_StartPollOnce ==
    [][/\ started => started' /\ (ppc' = "startPoll" => ppc = "startPoll")
       /\ ppc = "poll" /\ ppc' \notin {"poll", "fallback"} =>
             IF instantUpdates \in {"false", "throws"}
             THEN ppc' = "delay" /\ upc'[Poller] = upc[Poller]
             ELSE /\ ppc' = "update"
                  /\ upc[Poller] = "none" /\ upc'[Poller] = "lock"]_vars

\* The setting could not be read and the first cycle sleeps without a fetch.
C11_Witness ==
    started /\ instantUpdates = "throws" /\ ppc = "delay" /\ lastFetch = NeverFetched

(***************************************************************************)
(* Properties of the planner.                                              *)
(***************************************************************************)
\* The steps of the returned list that carry an appId.
StepsNaming(a) == {i \in DOMAIN steps : "appId" \in DOMAIN steps[i] /\ steps[i].appId = a}

\* C12: after a planning pass, every app that has a row in dependentApp and
\* none in dependentAppTarget gets exactly one step, the removal of that appId,
\* whatever the devices, the images, the downloads and the steps in progress.
C12_RemovalFirst ==
    \A a \in DOMAIN dependentApp \ DOMAIN dependentAppTarget :
        DOMAIN stepsForApp # {} =>
            /\ a \in DOMAIN stepsForApp
            /\ stepsForApp[a] = <<[action |-> "removeDependentApp", appId |-> a]>>
            /\ \E i \in DOMAIN steps :
                  /\ StepsNaming(a) = {i}
                  /\ steps[i] = [action |-> "removeDependentApp", appId |-> a]

\* App 1 is to be removed while its device has a pending target, no image is
\* available, a download runs and a step of the parent app is in progress; the
\* other app gets its own step first.
C12_Witness ==
    /\ 1 \in DOMAIN dependentApp /\ 1 \notin DOMAIN dependentAppTarget
    /\ "u1" \in DOMAIN dependentDevice /\ dependentDevice["u1"].targetCommit = "def"
    /\ availableImages = {} /\ downloading # {} /\ stepsInProgress # {}
    /\ Len(steps) = 2 /\ steps[2].action = "removeDependentApp"

\* C13: after a planning pass, a target app with a commit and an image that is
\* not among the available images, and whose parent app has no step in
\* progress, gets exactly one step: a noop when its imageId is being
\* downloaded, else the fetch of its image; the list holds no
\* updateDependentTargets and no sendDependentHooks step of that app.
C13_ImageGate ==
    \A a \in DOMAIN dependentAppTarget :
        LET t == dependentAppTarget[a]
        IN  /\ DOMAIN stepsForApp # {}
            /\ t.commit # Null /\ t.image # Null
            /\ [name |-> t.image] \notin availableImages
            /\ [appId |-> t.parentApp] \notin stepsInProgress
            => /\ a \in DOMAIN stepsForApp
               /\ stepsForApp[a] =
                     IF t.imageId \in downloading
                     THEN <<[action |-> "noop"]>>
                     ELSE <<[action |-> "fetch", appId |-> a,
                             image |-> [name |-> t.image, imageId |-> t.imageId,
                                        appId |-> a, dependent |-> TRUE]]>>
               /\ \A i \in StepsNaming(a) : steps[i].action = "fetch"

\* No image is available and image 11 is being downloaded: app 1, whose target
\* release has image 12 and differs from the current one, gets a fetch, and
\* app 2, whose image is 11, a noop.
C13_Witness ==
    /\ availableImages = {} /\ downloading = {"11"} /\ stepsInProgress = {}
    /\ DOMAIN dependentAppTarget = {1, 2} /\ dependentAppTarget[1].imageId = "12"
    /\ 1 \in DOMAIN dependentApp /\ dependentApp[1].imageId = "11"
    /\ "u1" \in DOMAIN dependentDeviceTarget
    /\ Len(steps) = 2 /\ steps[1].action = "fetch" /\ steps[2].action = "noop"

(***************************************************************************)
(* Properties of the hooks.                                                *)
(***************************************************************************)
\* The uuids the sendDependentHooks steps of a list of steps name.
HookEntries(list) ==
    UNION {{list[i].devices[j].uuid : j \in DOMAIN list[i].devices} :
           i \in {k \in DOMAIN list : list[k].action = "sendDependentHooks"}}

\* An update hook for the target the row of the device still holds was
\* answered with 200, no request to the device was started since, and the
\* device is not marked for deletion.
Answered200(u) ==
    /\ hist[u].ok # AckUndefined
    /\ u \in DOMAIN dependentDevice
    /\ ~dependentDevice[u].markedForDeletion
    /\ hist[u].ok = [appId |-> dependentDevice[u].appId,
                     commit |-> dependentDevice[u].targetCommit,
                     config |-> dependentDevice[u].targetConfig.json,
                     environment |-> dependentDevice[u].targetEnvironment.json]

\* C14 as stated: a planning pass lists no hook for a device whose update
\* hook for its unchanged target was answered with 200 and to which no
\* delivery was attempted since.
C14_HookSuppression ==
    [][passes' # passes =>
          \A u \in Uuids : Answered200(u) => u \notin HookEntries(steps')]_vars

\* C14, amended: the same when, in addition, no other request to the device
\* was in flight when the 200 arrived.
C14_HookSuppressionAlone ==
    [][passes' # passes =>
          \A u \in Uuids :
              Answered200(u) /\ hist[u].alone => u \notin HookEntries(steps')]_vars

\* The second pass lists the hook of u2 only: that of u1 was answered with 200.
C14_Witness ==
    /\ passes = 2 /\ Answered200("u1") /\ hist["u1"].alone
    /\ Len(steps) = 1 /\ HookEntries(steps) = {"u2"}

C16_RateLimit ==
    [][\A e \in Execs :
          exec[e].pc # "request" /\ exec'[e].pc = "request" =>
             LET u == exec'[e].step.devices[exec'[e].i].uuid
             IN  hist[u].last = NeverRequested \/ now - hist[u].last >= Window]_vars

\* The device a sendDependentHooks step has reached, and whether its request
\* is about to start, or has started.
AtDevice(e, i) ==
    /\ exec[e].pc \in {"delay", "send", "request"}
    /\ exec[e].step.action = "sendDependentHooks"
    /\ exec[e].i = i

\* C17: a step that finds a device inside its window waits until the window
\* is over and then sends: from the delay it goes to the request of the same
\* device, not before the end of the delay. Once the endpoint is known the
\* devices of a step are reached one after the other, from the first, each
\* after the request of the one before it was answered or failed, and each of
\* them gets its request.
C17_DelayedNotDropped ==
    /\ [][\A e \in Execs :
            /\ exec[e].pc = "sendDependentHooks" /\ exec'[e] # exec[e] =>
                  exec'[e].pc = "rejected" \/ AtDevice(e, 1)'
            /\ exec[e].pc = "delay" /\ exec'[e] # exec[e] =>
                  /\ now >= exec[e].wakeAt
                  /\ exec[e].wakeAt > lastRequestForDevice[
                         exec[e].step.devices[exec[e].i].uuid] + Window
                  /\ exec'[e] = [pc |-> "send", step |-> exec[e].step,
                                 i |-> exec[e].i]
            /\ exec[e].pc = "send" /\ exec'[e] # exec[e] =>
                  exec'[e].pc = "request" /\ AtDevice(e, exec[e].i)'
            /\ \A i \in 1..Cardinality(Uuids) :
                  AtDevice(e, i) /\ ~AtDevice(e, i)' =>
                     /\ exec[e].pc = "request"
                     /\ IF i < Len(exec[e].step.devices)
                        THEN AtDevice(e, i + 1)'
                             /\ exec'[e].step = exec[e].step
                        ELSE exec'[e].pc = "resolved"]_vars
    /\ \A e \in Execs : \A i \in 1..Cardinality(Uuids) :
          (AtDevice(e, i) /\ exec[e].pc # "request")
             ~> (AtDevice(e, i) /\ exec[e].pc = "request")

\* The second device of a step waits in its window after the request of the
\* first device was answered with an error.
C17_Witness ==
    \E e \in Execs :
        /\ AtDevice(e, 2) /\ exec[e].pc = "delay"
        /\ exec[e].wakeAt > now
        /\ acknowledgedState[exec[e].step.devices[1].uuid] = AckNull


\* The device a request of e is about.
Delivered(e) == exec[e].step.devices[exec[e].i]

\* C21: when a request of an update hook ends, the acknowledged state of its
\* uuid is the delivered target if the answer was 200 and null after any
\* other answer; after a timeout or a transport error it is null, or
\* undefined if nothing was ever recorded for the uuid.
C21_Acknowledged ==
    [][\A e \in Execs :
          exec[e].pc = "request" /\ exec[e].kind = "update" =>
             /\ \A status \in HookStatuses :
                   HookAnsweredWith(e, status) =>
                      acknowledgedState'[Delivered(e).uuid] =
                         IF status = 200 THEN Delivered(e).target ELSE AckNull
             /\ HookTimesOut(e) =>
                   acknowledgedState'[Delivered(e).uuid] \in {AckNull, AckUndefined}]_vars

LastDeliveryFailed(u) ==
    /\ hist[u].last # NeverRequested
    /\ hist[u].ok = AckUndefined
    /\ \A e \in Execs : exec[e].pc \in {"delay", "send", "request"} =>
          Delivered(e).uuid # u

\* C23: the end of a request, whatever it is, does not reject the step it
\* belongs to; and a planning pass with the arguments of the pass before it,
\* made after the last delivery to a device of that pass's hook step failed,
\* lists the device in a hook step again.
C23_AbsorbedAndRetried ==
    /\ [][\A e \in Execs :
            exec[e].pc = "request" /\ exec'[e] # exec[e] =>
               exec'[e].pc # "rejected"]_vars
    /\ [][passes' # passes /\ passes >= 1 /\ planned'.args = planned.args =>
            \A u \in HookEntries(steps) :
               LastDeliveryFailed(u) => u \in HookEntries(steps')]_vars

(***************************************************************************)
(* Properties of the executors.                                            *)
(***************************************************************************)
\* The action a call of executeStepAction was made with.
CalledWith(record) ==
    IF "step" \in DOMAIN record THEN record.step.action ELSE record.action

\* C18: a call of executeStepAction with one of the three actions that have a
\* handler enters that handler; a call with any other action name is rejected
\* with the invalid-action error, and no device row, app row, acknowledged
\* state or last-request time changes.
C18_Dispatch ==
    [][\A e \in Execs :
          exec[e].pc = "idle" /\ exec'[e].pc \notin {"idle", "sendUpdates"} =>
             IF CalledWith(exec'[e]) \in {"updateDependentTargets",
                                          "sendDependentHooks",
                                          "removeDependentApp"}
             THEN exec'[e].pc = CalledWith(exec'[e])
             ELSE /\ exec'[e].pc = "rejected"
                  /\ exec'[e].error = "Invalid proxyvisor action"
                  /\ UNCHANGED <<dbVars, acknowledgedState,
                                 lastRequestForDevice>>]_vars

\* What a successful updateDependentTargets(step) is to leave in the tables.
UpdatePostcondition(step) ==
    /\ \A i \in DOMAIN step.devices :
          LET device == step.devices[i]
          IN  /\ device.uuid \in DOMAIN dependentDevice
              /\ \A a \in DOMAIN device.apps :
                    LET row == dependentDevice[device.uuid]
                    IN  /\ row.targetCommit = device.apps[a].commit
                        /\ parse(row.targetEnvironment) = device.apps[a].environment
                        /\ parse(row.targetConfig) = device.apps[a].config
              /\ dependentDevice[device.uuid].name = device.name
    /\ \A u \in DOMAIN dependentDevice :
          /\ dependentDevice[u].appId = step.appId
          /\ \A i \in DOMAIN step.devices : step.devices[i].uuid # u
          => dependentDevice[u].markedForDeletion
    /\ step.appId \in DOMAIN dependentApp
    /\ normaliseDependentAppFromDB(dependentApp[step.appId]) = step.app

Updating(e) ==
    /\ "step" \in DOMAIN exec[e]
    /\ exec[e].step.action = "updateDependentTargets"

WithoutApp(step) == \E i \in DOMAIN step.devices : DOMAIN step.devices[i].apps = {}

\* C19: when updateDependentTargets(step) succeeds, every device of the step
\* has a row with the target commit, environment and config of its app entry
\* and with its name, every other row of step.appId is marked for deletion,
\* and the row of the app is step.app; a step with a device that has no app
\* entry does not succeed, and does not get past its devices.
C19_UpdateTargets ==
    /\ [][\A e \in Execs :
            Updating(e) /\ exec[e].pc # "resolved" /\ exec'[e].pc = "resolved" =>
               UpdatePostcondition(exec[e].step)']_vars
    /\ [](\A e \in Execs :
            Updating(e) /\ WithoutApp(exec[e].step) =>
               exec[e].pc \in {"updateDependentTargets", "devices"})

Removing(e) ==
    /\ "step" \in DOMAIN exec[e]
    /\ exec[e].step.action = "removeDependentApp"

\* C20: every step of removeDependentApp(step) leaves the rows of the other
\* apps and of their devices as they are and creates none; the step that
\* resolves it removes the row of step.appId and every device row of
\* step.appId, and every other step of it, a failure included, changes
\* neither table.
C20_RemoveAtomic ==
    [][\A e \in Execs :
          Removing(e) /\ exec[e].pc # "resolved" /\ exec'[e] # exec[e] =>
             LET appId == exec[e].step.appId
             IN  /\ DOMAIN dependentApp' \subseteq DOMAIN dependentApp
                 /\ DOMAIN dependentDevice' \subseteq DOMAIN dependentDevice
                 /\ \A a \in DOMAIN dependentApp \ {appId} :
                       a \in DOMAIN dependentApp' /\ dependentApp'[a] = dependentApp[a]
                 /\ \A u \in DOMAIN dependentDevice :
                       dependentDevice[u].appId # appId =>
                          /\ u \in DOMAIN dependentDevice'
                          /\ dependentDevice'[u] = dependentDevice[u]
                 /\ IF exec'[e].pc = "resolved"
                    THEN /\ appId \notin DOMAIN dependentApp'
                         /\ \A u \in DOMAIN dependentDevice :
                               dependentDevice[u].appId = appId =>
                                  u \notin DOMAIN dependentDevice'
                    ELSE /\ dependentApp' = dependentApp
                         /\ dependentDevice' = dependentDevice]_vars

\* App 2 had a row and a device when the steps were planned and has neither
\* after its removal, while app 1 and its device have theirs.
C20_Witness ==
    /\ passes = 1
    /\ 2 \in DOMAIN planned.args[3].apps
    /\ \E i \in DOMAIN planned.args[3].devices :
          /\ planned.args[3].devices[i].uuid = "u2"
          /\ 2 \in DOMAIN planned.args[3].devices[i].apps
    /\ \E e \in Execs :
          Removing(e) /\ exec[e].pc = "resolved" /\ exec[e].step.appId = 2
    /\ 2 \notin DOMAIN dependentApp /\ "u2" \notin DOMAIN dependentDevice
    /\ 1 \in DOMAIN dependentApp /\ "u1" \in DOMAIN dependentDevice

(***************************************************************************)
(* Properties of the stored target and of the normalisers.                 *)
(***************************************************************************)
\* C24: a call of setTargetInTransaction that no database failure stops
\* resolves; when it does, the appIds of the target-app table are the keys of
\* the apps map and the uuids of the target-device table the keys of the
\* devices map, a table whose map is absent being left as it was; and a call
\* with the desired object of a call that resolved before it, on the tables
\* that call left, changes nothing.
C24_SelfCleaning ==
    [][\A e \in Execs :
          exec[e].pc = "setTarget" /\ exec'[e] # exec[e] =>
             LET dependent == exec[e].dependent
             IN  /\ exec'[e].pc = "rejected" => exec'[e].error = "io"
                 /\ exec'[e].pc = "resolved" =>
                       /\ IF dependent.apps = Absent
                          THEN dependentAppTarget' = dependentAppTarget
                          ELSE \A apps \in dependent.apps :
                                  DOMAIN dependentAppTarget' = DOMAIN apps
                       /\ IF dependent.devices = Absent
                          THEN dependentDeviceTarget' = dependentDeviceTarget
                          ELSE \A devices \in dependent.devices :
                                  DOMAIN dependentDeviceTarget' = DOMAIN devices
                       /\ \A f \in Execs \ {e} :
                             /\ exec[f].pc = "resolved"
                             /\ "tables" \in DOMAIN exec[f]
                             /\ exec[f].dependent = dependent
                             /\ exec[f].tables =
                                   <<dependentAppTarget, dependentDeviceTarget>>
                             => /\ dependentAppTarget' = dependentAppTarget
                                /\ dependentDeviceTarget' = dependentDeviceTarget]_vars

\* The rows that are not marked for deletion.
Unmarked ==
    [u \in {v \in DOMAIN dependentDevice : ~dependentDevice[v].markedForDeletion} |->
        dependentDevice[u]]

UpdateSteps(list) ==
    {list[i] : i \in {j \in DOMAIN list : list[j].action = "updateDependentTargets"}}

\* C25: a row that is marked for deletion is marked or gone after every
\* step; a planning pass gives the updateDependentTargets steps it would give
\* if the marked rows were not in the table; and every entry of a hook step
\* for a marked row is a deletion.
C25_MarkedStays ==
    /\ [][\A u \in DOMAIN dependentDevice :
            dependentDevice[u].markedForDeletion =>
               u \notin DOMAIN dependentDevice'
               \/ dependentDevice'[u].markedForDeletion]_vars
    /\ [][passes' # passes =>
            /\ UpdateSteps(steps') =
                  UpdateSteps(getRequiredSteps(availableImages, downloading,
                     getCurrentStates(dependentApp, Unmarked),
                     getTarget(dependentAppTarget, dependentDeviceTarget),
                     stepsInProgress))
            /\ \A i \in DOMAIN steps' :
                  steps'[i].action = "sendDependentHooks" =>
                     \A j \in DOMAIN steps'[i].devices :
                        LET entry == steps'[i].devices[j]
                        IN  dependentDevice[entry.uuid].markedForDeletion =>
                               /\ "markedForDeletion" \in DOMAIN entry
                               /\ "target" \notin DOMAIN entry]_vars

\* The row of u1, marked for deletion, after an updateDependentTargets step
\* that listed u1 and wrote its target, and a second planning pass.
C25_Witness ==
    /\ "u1" \in DOMAIN dependentDevice
    /\ dependentDevice["u1"].markedForDeletion
    /\ dependentDevice["u1"].targetCommit = "def"
    /\ \E e \in Execs :
          /\ exec[e].pc = "resolved" /\ "step" \in DOMAIN exec[e]
          /\ exec[e].step.action = "updateDependentTargets"
          /\ \E i \in DOMAIN exec[e].step.devices :
                exec[e].step.devices[i].uuid = "u1"
    /\ passes = 2

\* A value that is a mapping: neither null nor undefined.
IsMapping(v) == v \notin {Null, Undefined}

\* C26: the app row that updateDependentTargets stores reads back as the app
\* of the step; and in what a planning pass reads from the tables, the config
\* and environment of every app, of every target app and of every device,
\* and the apps of every device and target device, are mappings and never
\* null.
C26_RoundTrip ==
    /\ [][\A e \in Execs :
            exec[e].pc = "app" /\ exec'[e].pc = "tars" =>
               LET row == dependentApp'[exec[e].step.appId]
                   app == exec[e].step.app
               IN  /\ row.config = [json |-> app.config]
                   /\ row.environment = [json |-> app.environment]
                   /\ [row EXCEPT !.config = app.config,
                                  !.environment = app.environment] = app]_vars
    /\ [](passes >= 1 =>
            LET current == planned.args[3]
                target == planned.args[4]
            IN  /\ \A a \in DOMAIN current.apps :
                      /\ IsMapping(current.apps[a].config)
                      /\ IsMapping(current.apps[a].environment)
                /\ \A a \in DOMAIN target.apps :
                      /\ IsMapping(target.apps[a].config)
                      /\ IsMapping(target.apps[a].environment)
                /\ \A i \in DOMAIN current.devices :
                      \A a \in DOMAIN current.devices[i].apps :
                         /\ IsMapping(current.devices[i].apps[a].config)
                         /\ IsMapping(current.devices[i].apps[a].environment)
                /\ \A i \in DOMAIN target.devices :
                      \A a \in DOMAIN target.devices[i].apps :
                         /\ IsMapping(target.devices[i].apps[a].config)
                         /\ IsMapping(target.devices[i].apps[a].environment))


(***************************************************************************)
(* Properties of the fetch lock, the request and the poll cycle.           *)
(***************************************************************************)
\* The ways the body of update() ends.
BodyEndings == {"200", "304", "http-error", "config-error", "endpoint-not-string",
                "timeout", "transport-error"}

\* C27: the fetch lock is released on every exit path of update() and before
\* lastFetch is written: once the body has ended, with an answer or with a
\* failure, the next step of the call gives the lock back, the timestamp is
\* written only by a call that no longer holds the lock, and a call that has
\* settled holds nothing; so an update() that waits for the lock gets it.
C27_LockReleased ==
    /\ [](\A p \in Proc : upc[p] \in {"finally", "settled", "none", "lock"}
                               => lockHolder # p)
    /\ [][\A p \in Proc :
            /\ (upc[p] = "release" /\ upc'[p] # "release")
                  => (outcome[p] \in BodyEndings /\ lockHolder = p
                      /\ lockHolder' = NoHolder /\ lastFetch' = lastFetch
                      /\ ~stamped'[p])
            /\ (~stamped[p] /\ stamped'[p]) => (lockHolder # p /\ lockHolder' # p)
            /\ (upc[p] \in {"config", "request"} /\ upc'[p] # upc[p])
                  => upc'[p] \in {"request", "release"}]_vars
    /\ \A p \in PollPeers \cup {Poller} :
          (upc[p] = "lock") ~> (upc[p] = "config" /\ lockHolder = p)

\* A call that waited gets the lock that a call that timed out gave back, before
\* that call's timestamp is written.
C27_Witness ==
    /\ upc["c1"] = "finally" /\ outcome["c1"] = "timeout" /\ ~stamped["c1"]
    /\ upc[Poller] = "config" /\ lockHolder = Poller

\* C28: a request that update() issues while the cache holds a string token
\* carries that token as If-None-Match; with an empty cache, or a cache whose
\* token is not a string, the request carries no If-None-Match.
C28_IfNoneMatch ==
    [][\A p \in Proc :
         (upc[p] = "config" /\ upc'[p] = "request")
         => IF cache # NoCache /\ cache.etag \in Etags
            THEN sent'[p] = cache.etag
            ELSE sent'[p] = NoHeader]_vars

\* C29: when the configuration read of a poll cycle fails, the cycle calls no
\* update(), leaves the count of consecutive failed fetches as it was, sleeps
\* the fallback of 10 seconds, and the next cycle starts after that sleep.
C29_ConfigFailure ==
    /\ [][(ppc = "poll" /\ ppc' = "fallback")
            => /\ upc[Poller] = "none" /\ upc'[Poller] = "none"
               /\ targetStateFetchErrors' = targetStateFetchErrors
               /\ delayMs' = 10000]_vars
    /\ [][ppc = "fallback"
            => /\ upc'[Poller] = "none"
               /\ targetStateFetchErrors' = targetStateFetchErrors
               /\ \/ ppc' = "fallback" /\ delayMs' = 10000
                  \/ ppc' = "poll"]_vars
    /\ (ppc = "fallback") ~> (ppc = "poll")

\* The sleep of 10 seconds after a failed configuration read that followed two
\* failed fetches: the count is still two.
C29_Witness ==
    /\ ppc = "fallback" /\ delayMs = 10000
    /\ targetStateFetchErrors = 2 /\ upc[Poller] = "none"

(***************************************************************************)
(* Properties of the planner while the parent app is busy.                 *)
(***************************************************************************)
\* C30: after a planning pass, an app that has a row in dependentAppTarget and
\* whose parent app is the appId of a step in progress gets exactly one step,
\* a noop, and no step of the list names it, whether or not its image is
\* available and whether or not its rows and its devices differ from the
\* target; an app without a target row gets its removal all the same.
C30_ParentBlocked ==
    DOMAIN stepsForApp # {} =>
        /\ \A a \in DOMAIN dependentAppTarget :
              [appId |-> dependentAppTarget[a].parentApp] \in stepsInProgress
              => /\ a \in DOMAIN stepsForApp
                 /\ stepsForApp[a] = <<[action |-> "noop"]>>
                 /\ StepsNaming(a) = {}
        /\ \A a \in DOMAIN dependentApp \ DOMAIN dependentAppTarget :
              stepsForApp[a] = <<[action |-> "removeDependentApp", appId |-> a]>>

\* A step of the parent app is in progress: app 1, whose target release differs
\* from the current one, whose image is not available and whose device has a
\* new target, gets a noop; app 2, which has no target, is removed.
C30_Witness ==
    /\ stepsInProgress = {[appId |-> 100]} /\ availableImages = {}
    /\ downloading = {}
    /\ DOMAIN dependentAppTarget = {1} /\ DOMAIN dependentApp = {1, 2}
    /\ dependentAppTarget[1].commit # Null /\ dependentAppTarget[1].image # Null
    /\ dependentApp[1].commit # dependentAppTarget[1].commit
    /\ "u1" \in DOMAIN dependentDeviceTarget /\ "u1" \in DOMAIN dependentDevice
    /\ steps = <<[action |-> "noop"], [action |-> "removeDependentApp", appId |-> 2]>>

(***************************************************************************)
(* Properties of the planner on an app whose image is there.               *)
(***************************************************************************)
\* The target a device row holds, and the target device a target row holds.
RowAssignment(r) ==
    [uuid |-> r.uuid, name |-> r.name,
     apps |-> [x \in {r.appId} |->
                 [commit |-> r.targetCommit,
                  environment |-> parse(r.targetEnvironment),
                  config |-> parse(r.targetConfig)]]]

StoredAssignments(a) ==
    {RowAssignment(dependentDevice[u]) :
        u \in {v \in DOMAIN dependentDevice :
                 /\ dependentDevice[v].appId = a
                 /\ ~dependentDevice[v].markedForDeletion}}

TargetDevicesOf(a) ==
    {[uuid |-> dependentDeviceTarget[u].uuid, name |-> dependentDeviceTarget[u].name,
      apps |-> dependentDeviceTarget[u].apps.json] :
        u \in {v \in DOMAIN dependentDeviceTarget :
                 a \in DOMAIN dependentDeviceTarget[v].apps.json}}

\* Neither the parent-blocked rule nor the image gate applies to a target app.
PastTheGates(a) ==
    LET t == dependentAppTarget[a]
    IN  /\ [appId |-> t.parentApp] \notin stepsInProgress
        /\ (t.commit = Null \/ t.image = Null \/ [name |-> t.image] \in availableImages)

RecordDiffers(a) ==
    \/ a \notin DOMAIN dependentApp
    \/ normaliseDependentAppFromDB(dependentApp[a])
          # normaliseDependentAppFromDB(dependentAppTarget[a])

\* C31: after a planning pass, a target app past the parent-blocked rule and
\* the image gate gets exactly one updateDependentTargets step, with all the
\* target devices of the app and the target app, when its current record
\* differs from the target record or the targets held by its device rows that
\* are not marked for deletion are not, as a set, the target devices; else it
\* gets no updateDependentTargets step. The mark and lock_expiry_date of a row
\* are not part of what is compared.
C31_TargetMismatch ==
    DOMAIN stepsForApp # {} =>
        \A a \in DOMAIN dependentAppTarget :
            PastTheGates(a) =>
                IF RecordDiffers(a) \/ StoredAssignments(a) # TargetDevicesOf(a)
                THEN /\ Len(stepsForApp[a]) = 1
                     /\ stepsForApp[a][1].action = "updateDependentTargets"
                     /\ stepsForApp[a][1].appId = a
                     /\ stepsForApp[a][1].app
                           = normaliseDependentAppFromDB(dependentAppTarget[a])
                     /\ Range(stepsForApp[a][1].devices) = TargetDevicesOf(a)
                     /\ Len(stepsForApp[a][1].devices) = Cardinality(TargetDevicesOf(a))
                ELSE \A i \in DOMAIN stepsForApp[a] :
                        stepsForApp[a][i].action # "updateDependentTargets"

\* App 2 is up to date, its device row carries a lock_expiry_date and holds
\* the target of the target row: no step for it. App 1 is up to date too, but
\* its only device row is marked for deletion and is not in the target: the
\* step of app 1 is the deletion hook, not an update.
C31_Witness ==
    /\ DOMAIN dependentAppTarget = {1, 2} /\ dependentApp = dependentAppTarget
    /\ DOMAIN dependentDevice = {"u1", "u2"} /\ DOMAIN dependentDeviceTarget = {"u2"}
    /\ dependentDevice["u1"].markedForDeletion
    /\ dependentDevice["u2"].lock_expiry_date = "2030"
    /\ dependentDeviceTarget["u2"].name = "dev"
    /\ stepsInProgress = {} /\ availableImages # {}
    /\ Len(steps) = 1 /\ steps[1].action = "sendDependentHooks"

\* A target device whose name is not the name on the device row: the app gets
\* the update step.
C31_NameDiffers ==
    /\ DOMAIN dependentAppTarget = {2} /\ dependentApp = dependentAppTarget
    /\ DOMAIN dependentDevice = {"u2"} /\ DOMAIN dependentDeviceTarget = {"u2"}
    /\ dependentDevice["u2"].targetCommit = "abc"
    /\ dependentDeviceTarget["u2"].name = "dev2"
    /\ stepsInProgress = {} /\ availableImages # {}
    /\ Len(steps) = 1 /\ steps[1].action = "updateDependentTargets"

\* The target state and the current state a device row holds.
RowTarget(r) ==
    [appId |-> r.appId, commit |-> r.targetCommit,
     config |-> parse(r.targetConfig), environment |-> parse(r.targetEnvironment)]

RowCurrent(r) ==
    [appId |-> r.appId, commit |-> r.commit,
     config |-> parse(r.config), environment |-> parse(r.environment)]

\* A target app past the gates whose record and devices match the target.
Settled(a) ==
    /\ PastTheGates(a)
    /\ ~RecordDiffers(a)
    /\ StoredAssignments(a) = TargetDevicesOf(a)

\* The step of app a is one sendDependentHooks step that lists the uuids, or
\* no step when there is no uuid to list.
HookStepOf(a, uuids) ==
    IF uuids = {}
    THEN stepsForApp[a] = <<>>
    ELSE /\ Len(stepsForApp[a]) = 1
         /\ stepsForApp[a][1].action = "sendDependentHooks"
         /\ stepsForApp[a][1].appId = a
         /\ {stepsForApp[a][1].devices[j].uuid :
                j \in DOMAIN stepsForApp[a][1].devices} = uuids
         /\ Len(stepsForApp[a][1].devices) = Cardinality(uuids)

RowsOfApp(a) == {u \in DOMAIN dependentDevice : dependentDevice[u].appId = a}

\* C32 as stated: after a planning pass, a settled app gets one
\* sendDependentHooks step that lists exactly its device rows that are marked
\* for deletion or whose target state is neither their current state nor the
\* state they acknowledged, and no step when there is no such row.
C32_SettledHooks ==
    DOMAIN stepsForApp # {} =>
        \A a \in DOMAIN dependentAppTarget :
            Settled(a) =>
                HookStepOf(a, {u \in RowsOfApp(a) :
                    LET r == dependentDevice[u]
                    IN  \/ r.markedForDeletion
                        \/ /\ RowTarget(r) # RowCurrent(r)
                           /\ RowTarget(r) # acknowledgedState[u]})

\* C32, amended: the same, a device that is not marked for deletion being
\* listed only when, in addition, its target commit is not null.
C32_SettledHooksWithCommit ==
    DOMAIN stepsForApp # {} =>
        \A a \in DOMAIN dependentAppTarget :
            Settled(a) =>
                HookStepOf(a, {u \in RowsOfApp(a) :
                    LET r == dependentDevice[u]
                    IN  \/ r.markedForDeletion
                        \/ /\ r.targetCommit # Null
                           /\ RowTarget(r) # RowCurrent(r)
                           /\ RowTarget(r) # acknowledgedState[u]})

\* App 1 is settled with two devices: u1 is marked for deletion, u2 has a
\* target that is neither its current state nor what it acknowledged. One
\* step lists both.
C32_Witness ==
    /\ DOMAIN dependentAppTarget = {1} /\ Settled(1)
    /\ RowsOfApp(1) = {"u1", "u2"}
    /\ dependentDevice["u1"].markedForDeletion
    /\ ~dependentDevice["u2"].markedForDeletion
    /\ dependentDevice["u2"].targetCommit = "def"
    /\ acknowledgedState["u2"] = AckNull
    /\ Len(steps) = 1 /\ steps[1].action = "sendDependentHooks"
    /\ Len(steps[1].devices) = 2

(***************************************************************************)
(* Properties of the commit stored with a target device.                   *)
(***************************************************************************)
\* The commit of app a in the desired object, null when there is no apps map,
\* no such app, or no commit.
DesiredCommit(dependent, a) ==
    IF dependent.apps = Absent THEN Null
    ELSE LET apps == The(dependent.apps)
         IN  IF a \notin DOMAIN apps \/ apps[a].commit \in {Null, Undefined}
             THEN Null ELSE apps[a].commit

\* C33: a call of setTargetInTransaction with a devices map fails only when the
\* database does; when it resolves, every device of the map has its row and
\* every app entry of the row carries the commit of the desired app of that
\* appId, or null when the desired object has no such app, the app has no
\* commit, or there is no apps map.
C33_StampedCommit ==
    [][\A e \in Execs :
          exec[e].pc = "setTarget" /\ exec'[e] # exec[e]
          /\ exec[e].dependent.devices # Absent =>
             LET dependent == exec[e].dependent
                 devices == The(dependent.devices)
             IN  /\ exec'[e].pc = "rejected" => exec'[e].error = "io"
                 /\ exec'[e].pc = "resolved" =>
                       \A u \in DOMAIN devices :
                          /\ u \in DOMAIN dependentDeviceTarget'
                          /\ DOMAIN dependentDeviceTarget'[u].apps.json
                                = DOMAIN devices[u].apps
                          /\ \A a \in DOMAIN devices[u].apps :
                                dependentDeviceTarget'[u].apps.json[a].commit
                                   = DesiredCommit(dependent, a)]_vars

(***************************************************************************)
(* Properties of the cached tarballs.                                      *)
(***************************************************************************)
\* C34: when updateDependentTargets for an app with commit c has pruned the
\* tarballs, the tarball of the app and c is there if it was there before and
\* no other tarball of the app is left; when removeDependentApp has pruned
\* them, no tarball of the app is left; both leave the tarballs of every other
\* app as they were, and no other step changes a tarball.
C34_TarsPruned ==
    [][tars' # tars =>
          \E e \in Execs :
             LET appId == exec[e].step.appId
                 kept == IF exec[e].pc = "tars"
                         THEN {<<appId, exec[e].step.app.commit>>} \cap tars
                         ELSE {}
             IN  /\ exec[e].pc \in {"tars", "removeDependentApp"}
                 /\ exec'[e].pc # exec[e].pc
                 /\ {file \in tars' : file[1] = appId} = kept
                 /\ {file \in tars' : file[1] # appId}
                       = {file \in tars : file[1] # appId}]_vars

(***************************************************************************)
(* Properties of an updateDependentTargets that fails.                     *)
(***************************************************************************)
\* C35: an updateDependentTargets that fails, at a device without an app, at
\* the registry, at a statement or at the tarballs, has changed no row of
\* dependentDevice and none of dependentApp.
C35_AllOrNothing ==
    [][\A e \in Execs :
          /\ exec[e].pc \in {"devices", "app", "tars"}
          /\ exec'[e].pc = "rejected"
          => /\ ~exec[e].wrote
             /\ dependentDevice' = dependentDevice
             /\ dependentApp' = dependentApp]_vars

(***************************************************************************)
(* Properties of the reconciliation loop.                                  *)
(***************************************************************************)
\* C36: with a fixed target, the loop of planning passes, each followed by
\* the execution of its steps, reaches a pass that returns no step, and every
\* device row that is marked for deletion is removed in the end.
C36_Converges ==
    /\ <>(passes >= 1 /\ steps = <<>> /\ calls = 0)
    /\ \A u \in Uuids :
          (u \in DOMAIN dependentDevice /\ dependentDevice[u].markedForDeletion)
             ~> (u \notin DOMAIN dependentDevice)
====
